---- MODULE Spec2Model ----
(***************************************************************************)
(* DNS monitor: the multi-resolver DNSChecker (resolver fan-out, consensus, *)
(* change detection against the KV history store).                         *)
(*                                                                         *)
(* A record value (an IP, a CNAME target, a nameserver name) is a string,   *)
(* modelled as the sequence of its characters so that Array.sort's order    *)
(* and Array.join(',') are computed, not assumed.  An optional value        *)
(* (null / undefined in the source) is <<>>, a present one is <<v>>.        *)
(* DNSRecord.timestamp and DNSCheckResult.timestamp are written but never   *)
(* read by any operation, and are left out of the records.                  *)
(***************************************************************************)
EXTENDS Integers, Sequences, FiniteSets, TLC

VARIABLES kv, pc, cfg, resolverResults, errorLog, resolverDiscrepancy,
          currentIPs, previousRecord, hasChanged, ret,
          invocation, cyclePc, domainsToCheck, enableIpAnalysis,
          notificationHandlers, cycleResults, sent, notifyLog,
          riskInput, risk, analysisCall, analysisPc, analysis, lookups,
          analysisRet, analysisStage, resolveInput, resolved

\* The state of performDNSCheck: the trigger and the configuration it runs
\* on, where it stands, its locals, and the messages posted to Telegram.
cycleVars == <<invocation, cyclePc, domainsToCheck, enableIpAnalysis,
               notificationHandlers, cycleResults, sent, notifyLog>>

\* The state of the IPAnalyzer: the arguments and the result of an
\* assessRisk call, and the position, the analysis under construction and
\* the external requests of an analyzeIP call.
analyzerVars ==
    <<riskInput, risk, analysisCall, analysisPc, analysis, lookups, analysisRet>>

\* The arguments and the outcome of a resolveDomain call made on its own.
callVars == <<resolveInput, resolved>>

vars == <<kv, pc, cfg, resolverResults, errorLog, resolverDiscrepancy,
          currentIPs, previousRecord, hasChanged, ret, cycleVars, analyzerVars,
          analysisStage, callVars>>

\* ------------------------------------------------------------------ bounds

\* Longest answer list a resolver returns.
MaxLen == 2

\* Longest list of analyses given to assessRisk.
MaxAnalyses == 2

\* The number of checks in a sequence of checks of one key.
MaxChecks == 2

\* ------------------------------------------------------------ option values

None == <<>>

Some(v) == <<v>>

\* ----------------------------------------------------------------- strings

\* The characters the modelled strings are made of, with their UTF-16 code
\* units: Array.prototype.sort compares strings by code unit.
CodeUnit(c) ==
    CASE c = "," -> 44
      [] c = "a" -> 97

\* The record values the resolvers answer with: "a" and "a,a".
Values == { <<"a">>, <<"a", ",", "a">> }

\* s < t for two strings, as JavaScript compares them (code unit by code
\* unit, a proper prefix first).
StrLess(s, t) ==
    \E i \in 1..(Len(s) + 1) :
        /\ i <= Len(t)
        /\ \A j \in 1..(i - 1) : s[j] = t[j]
        /\ \/ i = Len(s) + 1
           \/ /\ i <= Len(s)
              /\ CodeUnit(s[i]) < CodeUnit(t[i])

RECURSIVE InsertSorted(_, _)
InsertSorted(x, sorted) ==
    IF sorted = <<>> THEN <<x>>
    ELSE IF StrLess(x, Head(sorted)) THEN <<x>> \o sorted
    ELSE <<Head(sorted)>> \o InsertSorted(x, Tail(sorted))

\* [...ips].sort(): a sorted copy, default (string) comparison, stable.
RECURSIVE SortStrings(_)
SortStrings(ips) ==
    IF ips = <<>> THEN <<>>
    ELSE InsertSorted(ips[Len(ips)], SortStrings(SubSeq(ips, 1, Len(ips) - 1)))

\* list.join(','): the strings concatenated with a comma between them.
RECURSIVE JoinComma(_)
JoinComma(list) ==
    IF list = <<>> THEN <<>>
    ELSE IF Len(list) = 1 THEN list[1]
    ELSE list[1] \o <<",">> \o JoinComma(Tail(list))

\* ------------------------------------------------------------ JS objects

\* { [resolver: string]: string[] } is a sequence of [name, ips] entries in
\* insertion order: Object.keys / Object.values list string keys in the
\* order they were first assigned.
ObjectKeys(obj) == [i \in 1..Len(obj) |-> obj[i].name]

ObjectValues(obj) == [i \in 1..Len(obj) |-> obj[i].ips]

ObjectHas(obj, name) == \E i \in 1..Len(obj) : obj[i].name = name

\* obj[name] = ips
ObjectSet(obj, name, ips) ==
    IF ObjectHas(obj, name)
    THEN [i \in 1..Len(obj) |->
            IF obj[i].name = name THEN [name |-> name, ips |-> ips] ELSE obj[i]]
    ELSE Append(obj, [name |-> name, ips |-> ips])

\* obj[name], for a name the object has
ObjectGet(obj, name) ==
    LET i == CHOOSE k \in 1..Len(obj) : obj[k].name = name IN obj[i].ips

\* ---------------------------------------------------------------- DNSChecker

\* The names of dohProviders, in the order of the array.
dohProviders == << "Cloudflare", "Google", "Quad9" >>

ProviderNames == { dohProviders[i] : i \in 1..Len(dohProviders) }

\* config.recordType || 'A'
RecordTypeOf(config) ==
    IF config.recordType = None THEN "A" ELSE config.recordType[1]

\* The key built from the domain alone, as if every record were an A record.
KvKeyWithoutRecordType(config) == << "dns", config.domain, "A" >>

\* `dns:${config.domain}:${recordType}`
KvKey(config) == << "dns", config.domain, RecordTypeOf(config) >>

Throw(message) == [threw |-> TRUE, message |-> message, ips |-> <<>>]

Return(ips) == [threw |-> FALSE, message |-> "", ips |-> ips]

\* The test of resolveDomain's loop on one answer entry.
KeepAnswer(answer, recordType) ==
    \/ answer.type = 1
    \/ answer.type = 28
    \/ answer.type = 5 /\ recordType = "CNAME"
    \/ answer.type = 2 /\ recordType = "NS"

\* resolveDomain on the response the provider gave: the list of values, or
\* the error thrown.
ResolveDomain(response, recordType) ==
    IF response.fetch = "reject" THEN Throw("Network error")
    ELSE IF ~response.ok THEN Throw("DNS query failed")
    ELSE IF response.json = "invalid" THEN Throw("Unexpected token in JSON")
    ELSE IF response.Status # 0 THEN Throw("DNS query returned status")
    ELSE IF response.Answer = None THEN Return(<<>>)
    ELSE LET kept == SelectSeq(response.Answer[1],
                               LAMBDA answer : KeepAnswer(answer, recordType))
         IN  Return([i \in 1..Len(kept) |-> kept[i].data])

\* The provider callback without its try / catch.
ProviderCallbackRethrow(outcome) ==
    IF outcome.threw
    THEN [rejected |-> TRUE, message |-> outcome.message, ips |-> <<>>, logged |-> FALSE]
    ELSE [rejected |-> FALSE, message |-> "", ips |-> outcome.ips, logged |-> FALSE]

\* The callback resolveDomainMultiple maps over dohProviders, on the outcome
\* of its resolveDomain call: what it assigns to results[provider.name],
\* whether it logs the error (console.error, kept in errorLog with the
\* provider's name), and whether its promise rejects.
ProviderCallback(outcome) ==
    IF outcome.threw
    THEN [rejected |-> FALSE, message |-> outcome.message, ips |-> <<>>, logged |-> TRUE]
    ELSE [rejected |-> FALSE, message |-> "", ips |-> outcome.ips, logged |-> FALSE]

\* areIPsMatching without the two sorts.
AreIPsMatchingUnsorted(ips1, ips2) ==
    IF Len(ips1) # Len(ips2) THEN FALSE
    ELSE \A index \in 1..Len(ips1) : ips1[index] = ips2[index]

AreIPsMatching(ips1, ips2) ==
    IF Len(ips1) # Len(ips2) THEN FALSE
    ELSE LET sorted1 == SortStrings(ips1)
             sorted2 == SortStrings(ips2)
         IN  \A index \in 1..Len(sorted1) : sorted1[index] = sorted2[index]

NonEmpty(ips) == Len(ips) > 0

\* checkResolverDiscrepancy comparing the first two non-empty lists only.
CheckResolverDiscrepancyFirstPair(results) ==
    LET validResults == SelectSeq(ObjectValues(results), NonEmpty) IN
    IF Len(validResults) <= 1 THEN FALSE
    ELSE ~AreIPsMatching(validResults[1], validResults[2])

\* checkResolverDiscrepancy without the filter on empty lists.
CheckResolverDiscrepancyNoFilter(results) ==
    LET validResults == ObjectValues(results) IN
    IF Len(validResults) <= 1 THEN FALSE
    ELSE \E i \in 1..(Len(validResults) - 1) :
            ~AreIPsMatching(validResults[i], validResults[i + 1])

CheckResolverDiscrepancy(results) ==
    LET resolvers == ObjectKeys(results) IN
    IF Len(resolvers) <= 1 THEN FALSE
    ELSE LET validResults == SelectSeq(ObjectValues(results), NonEmpty) IN
         IF Len(validResults) <= 1 THEN FALSE
         ELSE \E i \in 1..(Len(validResults) - 1) :
                 ~AreIPsMatching(validResults[i], validResults[i + 1])

\* The key getMostCommonResult groups a list under.
ResultKey(ips) == JoinComma(SortStrings(ips))

\* The first loop keeping each group's list in sorted order.
RECURSIVE CountResultsSorted(_, _)
CountResultsSorted(results, resultCounts) ==
    IF results = <<>> THEN resultCounts
    ELSE LET ips == Head(results)
             key == ResultKey(ips)
             existing == \E k \in 1..Len(resultCounts) : resultCounts[k].key = key
         IN  CountResultsSorted(Tail(results),
                 IF existing
                 THEN [k \in 1..Len(resultCounts) |->
                         IF resultCounts[k].key = key
                         THEN [resultCounts[k] EXCEPT !.count = @ + 1]
                         ELSE resultCounts[k]]
                 ELSE Append(resultCounts,
                          [key |-> key, count |-> 1, ips |-> SortStrings(ips)]))

\* The first loop of getMostCommonResult: resultCounts, a Map, as the
\* sequence of its entries in insertion order.
RECURSIVE CountResults(_, _)
CountResults(results, resultCounts) ==
    IF results = <<>> THEN resultCounts
    ELSE LET ips == Head(results)
             key == ResultKey(ips)
             existing == \E k \in 1..Len(resultCounts) : resultCounts[k].key = key
         IN  CountResults(Tail(results),
                 IF existing
                 THEN [k \in 1..Len(resultCounts) |->
                         IF resultCounts[k].key = key
                         THEN [resultCounts[k] EXCEPT !.count = @ + 1]
                         ELSE resultCounts[k]]
                 ELSE Append(resultCounts, [key |-> key, count |-> 1, ips |-> ips]))

\* The second loop without the update of maxCount.
RECURSIVE PickMostCommonNoUpdate(_, _, _)
PickMostCommonNoUpdate(entries, maxCount, mostCommon) ==
    IF entries = <<>> THEN mostCommon
    ELSE IF Head(entries).count > maxCount
         THEN PickMostCommonNoUpdate(Tail(entries), maxCount, Head(entries).ips)
         ELSE PickMostCommonNoUpdate(Tail(entries), maxCount, mostCommon)

\* The second loop of getMostCommonResult.
RECURSIVE PickMostCommon(_, _, _)
PickMostCommon(entries, maxCount, mostCommon) ==
    IF entries = <<>> THEN mostCommon
    ELSE IF Head(entries).count > maxCount
         THEN PickMostCommon(Tail(entries), Head(entries).count, Head(entries).ips)
         ELSE PickMostCommon(Tail(entries), maxCount, mostCommon)

GetMostCommonResult(results) ==
    LET valid == SelectSeq(ObjectValues(results), NonEmpty) IN
    IF Len(valid) = 0 THEN <<>>
    ELSE IF Len(valid) = 1 THEN valid[1]
    ELSE PickMostCommon(CountResults(valid, <<>>), 0, valid[1])

\* JSON.stringify of a DNSRecord: the text the store holds, as the sequence
\* of its member names and values.
JSONStringify(record) ==
    << "domain", record.domain, "ips", record.ips, "recordType", record.recordType >>

\* JSON.parse of a stored text.
JSONParse(text) ==
    [domain |-> text[2], ips |-> text[4], recordType |-> text[6]]

\* The stored text never taken as a record.
ParsePreviousNever(previousRecordStr) == None

\* previousRecordStr ? JSON.parse(previousRecordStr) : null
ParsePrevious(previousRecordStr) ==
    IF previousRecordStr # None THEN Some(JSONParse(previousRecordStr[1])) ELSE None

\* hasChanged with a missing record compared as an empty one.
HasChangedAgainstEmpty(ips, previous) ==
    ~AreIPsMatching(ips, IF previous # None THEN previous[1].ips ELSE <<>>)

\* previousRecord ? !this.areIPsMatching(currentIPs, previousRecord.ips) : false
HasChanged(ips, previous) ==
    IF previous # None THEN ~AreIPsMatching(ips, previous[1].ips) ELSE FALSE

\* newRecord with its list normalised by sorting.
NewRecordSorted(config, ips) ==
    [domain |-> config.domain, ips |-> SortStrings(ips),
     recordType |-> RecordTypeOf(config)]

\* newRecord
NewRecord(config, ips) ==
    [domain |-> config.domain, ips |-> ips, recordType |-> RecordTypeOf(config)]

\* The result of the try block with isFirstCheck never set.
CheckResultNeverFirst(config, changed, previous, ips, discrepancy, results) ==
    [domain |-> config.domain,
     hasChanged |-> changed,
     previousIPs |-> IF previous # None THEN previous[1].ips ELSE <<>>,
     currentIPs |-> ips,
     isFirstCheck |-> FALSE,
     error |-> None,
     resolverDiscrepancy |-> Some(discrepancy),
     resolverResults |-> Some(results)]

\* The result checkDomain returns from its try block.
CheckResult(config, changed, previous, ips, discrepancy, results) ==
    [domain |-> config.domain,
     hasChanged |-> changed,
     previousIPs |-> IF previous # None THEN previous[1].ips ELSE <<>>,
     currentIPs |-> ips,
     isFirstCheck |-> previous = None,
     error |-> None,
     resolverDiscrepancy |-> Some(discrepancy),
     resolverResults |-> Some(results)]

\* The result checkDomain returns from its catch block.
ErrorResult(config, message) ==
    [domain |-> config.domain,
     hasChanged |-> TRUE,
     previousIPs |-> <<>>,
     currentIPs |-> <<>>,
     isFirstCheck |-> FALSE,
     error |-> Some(message),
     resolverDiscrepancy |-> None,
     resolverResults |-> None]

\* ------------------------------------------------------------------ inputs

\* The checkDomain calls that can be in flight.  The sequential
\* specification runs the checks of "t1" one after the other.
Tasks == { "t1", "t2", "t3", "t4", "t5", "t6" }

\* The task that runs the checkDomain call of the entry at `index` of the
\* array given to checkDomains.
TaskAt(index) == << "t1", "t2", "t3", "t4", "t5", "t6" >>[index]

SeqTasks == { "t1" }

\* The monitored domain entries.
Configs == { [domain |-> "example.com", recordType |-> None] }

\* The entries of a configuration that monitors two domains.
CycleConfigs ==
    { [domain |-> "example.com", recordType |-> None],
      [domain |-> "example.org", recordType |-> None] }

\* The entries of a configuration that monitors six domains.
LiteDomains ==
    << [domain |-> "one.example", recordType |-> None],
       [domain |-> "two.example", recordType |-> None],
       [domain |-> "three.example", recordType |-> None],
       [domain |-> "four.example", recordType |-> None],
       [domain |-> "five.example", recordType |-> None],
       [domain |-> "six.example", recordType |-> None] >>

\* Entries that track one domain under two record types, with the record
\* type of an A entry left out or written, and a second domain.
KeyConfigs ==
    { [domain |-> "example.com", recordType |-> None],
      [domain |-> "example.com", recordType |-> Some("A")],
      [domain |-> "example.com", recordType |-> Some("AAAA")],
      [domain |-> "example.org", recordType |-> None] }

Keys ==
    { KvKey(config) :
        config \in Configs \cup CycleConfigs \cup KeyConfigs
                      \cup { LiteDomains[i] : i \in 1..Len(LiteDomains) } }

\* Answer entries: the address records (type 1) of every value, and an
\* alias record (type 5) such as precedes them in the answer for an aliased
\* name.
Answers ==
    [type : {1}, data : Values] \cup [type : {5}, data : { <<"a">> }]

AnswerLists == UNION { [1..n -> Answers] : n \in 0..MaxLen }

\* What a provider can give back: a rejected fetch, a non-OK response, a
\* body that is no JSON, a non-zero DNS status, a body without Answer, and
\* any answer list.
Responses ==
    { [fetch |-> "reject", ok |-> FALSE, json |-> "invalid", Status |-> 0, Answer |-> None],
      [fetch |-> "resolve", ok |-> FALSE, json |-> "valid", Status |-> 0, Answer |-> None],
      [fetch |-> "resolve", ok |-> TRUE, json |-> "invalid", Status |-> 0, Answer |-> None],
      [fetch |-> "resolve", ok |-> TRUE, json |-> "valid", Status |-> 2, Answer |-> None],
      [fetch |-> "resolve", ok |-> TRUE, json |-> "valid", Status |-> 0, Answer |-> None] }
    \cup { [fetch |-> "resolve", ok |-> TRUE, json |-> "valid", Status |-> 0,
            Answer |-> Some(list)] : list \in AnswerLists }

\* ------------------------------------------------------------------ actions

\* No invocation of the worker is running.
CycleIdle ==
    /\ invocation = None
    /\ cyclePc = "idle"
    /\ domainsToCheck = <<>>
    /\ enableIpAnalysis = None
    /\ notificationHandlers = <<>>
    /\ cycleResults = None
    /\ sent = <<>>
    /\ notifyLog = <<>>

\* No call of the IPAnalyzer is running.
AnalyzerIdle ==
    /\ riskInput = None
    /\ risk = None
    /\ analysisCall = None
    /\ analysisPc = <<>>
    /\ analysis = <<>>
    /\ lookups = <<>>
    /\ analysisRet = None

\* No resolveDomain call has been made on its own.
NoCall ==
    /\ resolveInput = None
    /\ resolved = None

\* No check is running.
ChecksIdle ==
    /\ analysisStage = [t \in Tasks |-> None]
    /\ pc = [t \in Tasks |-> "idle"]
    /\ cfg = [t \in Tasks |-> None]
    /\ resolverResults = [t \in Tasks |-> <<>>]
    /\ errorLog = [t \in Tasks |-> {}]
    /\ resolverDiscrepancy = [t \in Tasks |-> None]
    /\ currentIPs = [t \in Tasks |-> <<>>]
    /\ previousRecord = [t \in Tasks |-> None]
    /\ hasChanged = [t \in Tasks |-> None]
    /\ ret = [t \in Tasks |-> None]

Init ==
    /\ CycleIdle
    /\ AnalyzerIdle
    /\ NoCall
    /\ analysisStage = [t \in Tasks |-> None]
    /\ kv = [key \in Keys |-> None]
    /\ pc = [t \in Tasks |-> "idle"]
    /\ cfg = [t \in Tasks |-> None]
    /\ resolverResults = [t \in Tasks |-> <<>>]
    /\ errorLog = [t \in Tasks |-> {}]
    /\ resolverDiscrepancy = [t \in Tasks |-> None]
    /\ currentIPs = [t \in Tasks |-> <<>>]
    /\ previousRecord = [t \in Tasks |-> None]
    /\ hasChanged = [t \in Tasks |-> None]
    /\ ret = [t \in Tasks |-> None]

\* checkDomain returns: its local variables are gone.
LocalsDropped(t) ==
    /\ resolverResults' = [resolverResults EXCEPT ![t] = <<>>]
    /\ resolverDiscrepancy' = [resolverDiscrepancy EXCEPT ![t] = None]
    /\ currentIPs' = [currentIPs EXCEPT ![t] = <<>>]
    /\ previousRecord' = [previousRecord EXCEPT ![t] = None]
    /\ hasChanged' = [hasChanged EXCEPT ![t] = None]

\* checkDomain(config) is called: it calls resolveDomainMultiple, which
\* starts one query per provider.
Start(t, config) ==
    /\ pc[t] \in {"idle", "done"}
    /\ pc' = [pc EXCEPT ![t] = "resolving"]
    /\ cfg' = [cfg EXCEPT ![t] = Some(config)]
    /\ errorLog' = [errorLog EXCEPT ![t] = {}]
    /\ ret' = [ret EXCEPT ![t] = None]
    /\ UNCHANGED <<kv, resolverResults, resolverDiscrepancy, currentIPs,
                   previousRecord, hasChanged>>
    /\ UNCHANGED <<cycleVars, analyzerVars, analysisStage, callVars>>

\* The query of one provider settles with `response` and the provider's
\* callback runs.  A callback that rejected would reject Promise.all and
\* with it resolveDomainMultiple, which checkDomain catches.
ResolverSettle(t, name, response) ==
    /\ pc[t] = "resolving"
    /\ ~ObjectHas(resolverResults[t], name)
    /\ LET settled == ProviderCallback(ResolveDomain(response, RecordTypeOf(cfg[t][1])))
       IN  IF settled.rejected
           THEN /\ pc' = [pc EXCEPT ![t] = "done"]
                /\ ret' = [ret EXCEPT ![t] = Some(ErrorResult(cfg[t][1], settled.message))]
                /\ LocalsDropped(t)
                /\ UNCHANGED errorLog
           ELSE /\ resolverResults' =
                       [resolverResults EXCEPT ![t] = ObjectSet(@, name, settled.ips)]
                /\ errorLog' =
                       [errorLog EXCEPT ![t] =
                           IF settled.logged
                           THEN @ \cup { [name |-> name, message |-> settled.message] }
                           ELSE @]
                /\ UNCHANGED <<pc, ret, resolverDiscrepancy, currentIPs,
                               previousRecord, hasChanged>>
    /\ UNCHANGED <<kv, cfg>>
    /\ UNCHANGED <<cycleVars, analyzerVars, analysisStage, callVars>>

\* Promise.all taken as resolved once one callback has finished.
AnySettled(results) == \E name \in ProviderNames : ObjectHas(results, name)

\* await Promise.all(promises): every provider's callback has finished, and
\* so has written its entry.
AllSettled(results) == \A name \in ProviderNames : ObjectHas(results, name)

\* Every query has settled: Promise.all resolves, resolveDomainMultiple
\* returns, and checkDomain runs to its kvStore.get.
JoinResolvers(t) ==
    /\ pc[t] = "resolving"
    /\ AllSettled(resolverResults[t])
    /\ resolverDiscrepancy' =
           [resolverDiscrepancy EXCEPT ![t] = Some(CheckResolverDiscrepancy(resolverResults[t]))]
    /\ currentIPs' = [currentIPs EXCEPT ![t] = GetMostCommonResult(resolverResults[t])]
    /\ pc' = [pc EXCEPT ![t] = "get"]
    /\ UNCHANGED <<kv, cfg, resolverResults, errorLog, previousRecord, hasChanged, ret>>
    /\ UNCHANGED <<cycleVars, analyzerVars, analysisStage, callVars>>

\* kvStore.get resolves: checkDomain parses the record, decides hasChanged
\* and calls kvStore.put.
KvGetResolve(t) ==
    /\ pc[t] = "get"
    /\ LET previous == ParsePrevious(kv[KvKey(cfg[t][1])])
       IN  /\ previousRecord' = [previousRecord EXCEPT ![t] = previous]
           /\ hasChanged' = [hasChanged EXCEPT ![t] = Some(HasChanged(currentIPs[t], previous))]
    /\ pc' = [pc EXCEPT ![t] = "put"]
    /\ UNCHANGED <<kv, cfg, resolverResults, errorLog, resolverDiscrepancy, currentIPs, ret>>
    /\ UNCHANGED <<cycleVars, analyzerVars, analysisStage, callVars>>

\* kvStore.get rejects: the catch block returns the error result.
KvGetReject(t) ==
    /\ pc[t] = "get"
    /\ ret' = [ret EXCEPT ![t] = Some(ErrorResult(cfg[t][1], "KV get failed"))]
    /\ pc' = [pc EXCEPT ![t] = "done"]
    /\ LocalsDropped(t)
    /\ UNCHANGED <<kv, cfg, errorLog>>
    /\ UNCHANGED <<cycleVars, analyzerVars, analysisStage, callVars>>

\* kvStore.put writes the record and resolves, and the check then fails as
\* if a statement after the put had thrown.
KvPutResolveThenThrow(t) ==
    /\ pc[t] = "put"
    /\ kv' = [kv EXCEPT ![KvKey(cfg[t][1])] =
                 Some(JSONStringify(NewRecord(cfg[t][1], currentIPs[t])))]
    /\ ret' = [ret EXCEPT ![t] = Some(ErrorResult(cfg[t][1], "Unknown error"))]
    /\ pc' = [pc EXCEPT ![t] = "done"]
    /\ LocalsDropped(t)
    /\ UNCHANGED <<cfg, errorLog>>
    /\ UNCHANGED <<cycleVars, analyzerVars, analysisStage, callVars>>

\* kvStore.put writes the record and resolves: checkDomain returns its
\* result.
KvPutResolve(t) ==
    /\ pc[t] = "put"
    /\ kv' = [kv EXCEPT ![KvKey(cfg[t][1])] =
                 Some(JSONStringify(NewRecord(cfg[t][1], currentIPs[t])))]
    /\ ret' = [ret EXCEPT ![t] =
                 Some(CheckResult(cfg[t][1], hasChanged[t][1], previousRecord[t],
                                  currentIPs[t], resolverDiscrepancy[t][1],
                                  resolverResults[t]))]
    /\ pc' = [pc EXCEPT ![t] = "done"]
    /\ LocalsDropped(t)
    /\ UNCHANGED <<cfg, errorLog>>
    /\ UNCHANGED <<cycleVars, analyzerVars, analysisStage, callVars>>

\* kvStore.put rejects without writing: the catch block returns the error
\* result.
KvPutReject(t) ==
    /\ pc[t] = "put"
    /\ ret' = [ret EXCEPT ![t] = Some(ErrorResult(cfg[t][1], "KV put failed"))]
    /\ pc' = [pc EXCEPT ![t] = "done"]
    /\ LocalsDropped(t)
    /\ UNCHANGED <<kv, cfg, errorLog>>
    /\ UNCHANGED <<cycleVars, analyzerVars, analysisStage, callVars>>

\* The provider whose query settles next when the queries settle in the
\* order they were started.
InDispatchOrder(t, name) ==
    /\ Len(resolverResults[t]) < Len(dohProviders)
    /\ name = dohProviders[Len(resolverResults[t]) + 1]

\* One invocation checking its domain again and again, the queries of a
\* check settling in the order they were started.
Next ==
    \E t \in SeqTasks :
        \/ \E config \in Configs : Start(t, config)
        \/ \E name \in ProviderNames, response \in Responses :
               InDispatchOrder(t, name) /\ ResolverSettle(t, name, response)
        \/ JoinResolvers(t)
        \/ KvGetResolve(t)
        \/ KvGetReject(t)
        \/ KvPutResolve(t)
        \/ KvPutReject(t)

Spec == Init /\ [][Next]_vars

\* The resolver fan-out and the consensus step of one check, the queries
\* settling in any order.
NextFanOut ==
    \E t \in SeqTasks :
        \/ \E config \in Configs : pc[t] = "idle" /\ Start(t, config)
        \/ \E name \in ProviderNames, response \in Responses :
               ResolverSettle(t, name, response)
        \/ JoinResolvers(t)

SpecFanOut == Init /\ [][NextFanOut]_vars

\* ------------------------------------------------------- the check cycle

\* slice(0, 5) taken as the whole array.
SliceWhole(list, start, end) == list

\* Array.prototype.slice(start, end) with 0 <= start <= end.
Slice(list, start, end) ==
    SubSeq(list, start + 1, IF end < Len(list) THEN end ELSE Len(list))

\* The condition under which performDNSCheck adds the Telegram handler.
TelegramConfigured(config) ==
    /\ config.telegram # None
    /\ config.telegram[1].botToken # "YOUR_BOT_TOKEN"

\* The filter without its resolverDiscrepancy alternative.
IsChangedResultWithoutDiscrepancy(result) ==
    result.hasChanged /\ ~result.isFirstCheck

\* No filter: every result is kept.
IsChangedResultAlways(result) == TRUE

\* The test of filterChangedResults on one result; an absent
\* resolverDiscrepancy is falsy.
IsChangedResult(result) ==
    \/ result.hasChanged /\ ~result.isFirstCheck
    \/ result.resolverDiscrepancy = Some(TRUE)

FilterChangedResults(list) == SelectSeq(list, IsChangedResult)

\* formatMessage: one block per result it is given, with the lines the
\* result calls for.
FormatMessage(changedResults) ==
    IF Len(changedResults) = 0
    THEN [text |-> "All domains are resolving to their expected IPs.", blocks |-> <<>>]
    ELSE [text |-> "DNS Changes/Discrepancies Detected!",
          blocks |-> [i \in 1..Len(changedResults) |->
                        [domain |-> changedResults[i].domain,
                         changed |-> changedResults[i].hasChanged
                                       /\ ~changedResults[i].isFirstCheck,
                         previousIPs |-> changedResults[i].previousIPs,
                         currentIPs |-> changedResults[i].currentIPs,
                         discrepancy |-> changedResults[i].resolverDiscrepancy = Some(TRUE),
                         error |-> changedResults[i].error]]]

\* notify(results) of the Telegram handler, with the filter of the base
\* class: the message it posts, if any.
TelegramNotify(list) ==
    LET changedResults == FilterChangedResults(list)
    IN  IF Len(changedResults) = 0 THEN None
        ELSE Some(FormatMessage(changedResults))

\* What a trigger passes as options?.lite.
LiteOf(trigger) == trigger = "/check"

\* The configurations of the worker: no domain, one domain or two domains,
\* and the Telegram section left at its placeholder or filled in.
AppConfigs ==
    [domains : { <<>>,
                 << [domain |-> "example.com", recordType |-> None] >>,
                 << [domain |-> "example.com", recordType |-> None],
                    [domain |-> "example.org", recordType |-> None] >> },
     telegram : { Some([botToken |-> "YOUR_BOT_TOKEN"]), Some([botToken |-> "token"]) }]

Triggers == { "/check", "scheduled" }

\* What a provider gives back in the cycle: a rejected fetch or one address
\* record.
CycleResponses ==
    { r \in Responses :
        \/ r.fetch = "reject"
        \/ r.Answer # None /\ Len(r.Answer[1]) = 1 /\ r.Answer[1][1].type = 1 }

\* The record a key holds after an earlier check that found `ips`.
StoredRecord(key, ips) ==
    Some(JSONStringify([domain |-> key[2], ips |-> ips, recordType |-> key[3]]))

\* The history store as earlier cycles left it: before the first cycle no
\* key has a record, after it every key has one.
CycleStores == { [key \in Keys |-> state] : state \in { "unseen", "tracked" } }

InitCycle ==
    /\ CycleIdle
    /\ AnalyzerIdle
    /\ NoCall
    /\ analysisStage = [t \in Tasks |-> None]
    /\ \E store \in CycleStores :
          kv = [key \in Keys |->
                  IF store[key] = "unseen" THEN None ELSE StoredRecord(key, << <<"a">> >>)]
    /\ pc = [t \in Tasks |-> "idle"]
    /\ cfg = [t \in Tasks |-> None]
    /\ resolverResults = [t \in Tasks |-> <<>>]
    /\ errorLog = [t \in Tasks |-> {}]
    /\ resolverDiscrepancy = [t \in Tasks |-> None]
    /\ currentIPs = [t \in Tasks |-> <<>>]
    /\ previousRecord = [t \in Tasks |-> None]
    /\ hasChanged = [t \in Tasks |-> None]
    /\ ret = [t \in Tasks |-> None]

\* performDNSCheck(env, options) up to its first await: it loads the
\* configuration, picks the domains, builds the checker and the handlers and
\* calls checkDomains, which calls checkDomain for every entry.
PerformDNSCheck(trigger, config) ==
    /\ cyclePc = "idle"
    /\ invocation' = Some([trigger |-> trigger, config |-> config])
    /\ LET domains == IF LiteOf(trigger) THEN Slice(config.domains, 0, 5)
                      ELSE config.domains
       IN  /\ domainsToCheck' = domains
           /\ pc' = [t \in Tasks |->
                       IF \E i \in 1..Len(domains) : t = TaskAt(i)
                       THEN "resolving" ELSE pc[t]]
           /\ cfg' = [t \in Tasks |->
                       IF \E i \in 1..Len(domains) : t = TaskAt(i)
                       THEN Some(domains[CHOOSE i \in 1..Len(domains) : t = TaskAt(i)])
                       ELSE cfg[t]]
    /\ enableIpAnalysis' = Some(~LiteOf(trigger))
    /\ notificationHandlers' =
           IF TelegramConfigured(config) THEN << "Telegram" >> ELSE <<>>
    /\ cyclePc' = "checking"
    /\ UNCHANGED <<kv, resolverResults, errorLog, resolverDiscrepancy, currentIPs,
                   previousRecord, hasChanged, ret, cycleResults, sent, notifyLog>>
    /\ UNCHANGED <<analyzerVars, analysisStage, callVars>>

\* Every checkDomain promise has resolved: Promise.all resolves with their
\* results in the order of the array.
CheckDomainsResolve ==
    /\ cyclePc = "checking"
    /\ \A i \in 1..Len(domainsToCheck) : pc[TaskAt(i)] = "done"
    /\ cycleResults' = Some([i \in 1..Len(domainsToCheck) |-> ret[TaskAt(i)][1]])
    /\ cyclePc' = "notifying"
    /\ UNCHANGED <<kv, pc, cfg, resolverResults, errorLog, resolverDiscrepancy,
                   currentIPs, previousRecord, hasChanged, ret, invocation,
                   domainsToCheck, enableIpAnalysis, notificationHandlers, sent, notifyLog>>
    /\ UNCHANGED <<analyzerVars, analysisStage, callVars>>

\* One round of the loop over the handlers: notify(results) of the next
\* handler filters the results, returns if none is left, and otherwise
\* posts the message; when Telegram does not answer OK, notify throws and
\* performDNSCheck logs the failure.
Notify(ok) ==
    /\ cyclePc = "notifying"
    /\ notificationHandlers # <<>>
    /\ LET posted == TelegramNotify(cycleResults[1])
       IN  IF posted = None
           THEN UNCHANGED <<sent, notifyLog>>
           ELSE /\ sent' = Append(sent, posted[1])
                /\ notifyLog' = IF ok THEN notifyLog
                                ELSE Append(notifyLog, Head(notificationHandlers))
    /\ notificationHandlers' = Tail(notificationHandlers)
    /\ UNCHANGED <<kv, pc, cfg, resolverResults, errorLog, resolverDiscrepancy,
                   currentIPs, previousRecord, hasChanged, ret, invocation, cyclePc,
                   domainsToCheck, enableIpAnalysis, cycleResults>>
    /\ UNCHANGED <<analyzerVars, analysisStage, callVars>>

\* The loop is over: performDNSCheck returns the results.
PerformDNSCheckReturn ==
    /\ cyclePc = "notifying"
    /\ notificationHandlers = <<>>
    /\ cyclePc' = "returned"
    /\ UNCHANGED <<kv, pc, cfg, resolverResults, errorLog, resolverDiscrepancy,
                   currentIPs, previousRecord, hasChanged, ret, invocation,
                   domainsToCheck, enableIpAnalysis, notificationHandlers,
                   cycleResults, sent, notifyLog>>
    /\ UNCHANGED <<analyzerVars, analysisStage, callVars>>

\* One invocation of the worker: the checks of its domains run
\* concurrently, each with its queries settling in the order they were
\* started.
NextCycle ==
    \/ \E trigger \in Triggers, config \in AppConfigs : PerformDNSCheck(trigger, config)
    \/ \E i \in 1..Len(domainsToCheck), name \in ProviderNames, response \in CycleResponses :
           InDispatchOrder(TaskAt(i), name) /\ ResolverSettle(TaskAt(i), name, response)
    \/ \E i \in 1..Len(domainsToCheck) : JoinResolvers(TaskAt(i))
    \/ \E i \in 1..Len(domainsToCheck) : KvGetResolve(TaskAt(i))
    \/ \E i \in 1..Len(domainsToCheck) : KvGetReject(TaskAt(i))
    \/ \E i \in 1..Len(domainsToCheck) : KvPutResolve(TaskAt(i))
    \/ \E i \in 1..Len(domainsToCheck) : KvPutReject(TaskAt(i))
    \/ CheckDomainsResolve
    \/ \E ok \in BOOLEAN : Notify(ok)
    \/ PerformDNSCheckReturn

SpecCycle == InitCycle /\ [][NextCycle]_vars

\* ------------------------------------------------------------ risk scoring

\* Boolean(v) for an optional string: absent and '' are falsy.
Truthy(v) == v # None /\ v[1] # ""

\* Any reputation at all counted as malicious.
IsMaliciousOfAnyReputation(a) == a.reputation # None

\* a.geolocation?.country, a.asn?.organization, a.reputation?.isMalicious
CountryOf(a) == IF a.geolocation = None THEN None ELSE a.geolocation[1].country

OrganizationOf(a) == IF a.asn = None THEN None ELSE a.asn[1].organization

IsMaliciousOf(a) ==
    /\ a.reputation # None
    /\ a.reputation[1].isMalicious = Some(TRUE)

\* The values of a list in the order of their first occurrence: what
\* spreading new Set(list) gives.
RECURSIVE SetOrder(_)
SetOrder(list) ==
    IF list = <<>> THEN <<>>
    ELSE LET front == SetOrder(SubSeq(list, 1, Len(list) - 1))
             last == list[Len(list)]
         IN  IF \E i \in 1..Len(front) : front[i] = last THEN front
             ELSE Append(front, last)

\* new Set(list.map(field).filter(Boolean)), spread: the truthy values.
TruthyValues(list, Field(_)) ==
    LET values == [i \in 1..Len(list) |-> Field(list[i])]
        kept == SelectSeq(values, Truthy)
    IN  SetOrder([i \in 1..Len(kept) |-> kept[i][1]])

Includes(list, v) == \E i \in 1..Len(list) : list[i] = v

\* The list without North Korea.
highRiskCountriesShort == << "Russia", "China", "Iran" >>

highRiskCountries == << "Russia", "China", "North Korea", "Iran" >>

\* A line of factors: its fixed text, and the count or the names it lists.
Factor(text, count, names) == [text |-> text, count |-> count, names |-> names]

\* The thresholds compared with > instead of >=.
LevelOfStrict(riskScore) ==
    IF riskScore > 80
    THEN [level |-> "critical",
          recommendation |-> "IMMEDIATE ACTION REQUIRED: This appears to be a DNS hijacking. Verify immediately and consider blocking access."]
    ELSE IF riskScore > 50
    THEN [level |-> "high",
          recommendation |-> "HIGH RISK: Significant suspicious indicators detected. Investigate immediately."]
    ELSE IF riskScore > 25
    THEN [level |-> "medium",
          recommendation |-> "MEDIUM RISK: Some concerning changes detected. Verify if these changes were authorized."]
    ELSE [level |-> "low",
          recommendation |-> "LOW RISK: Changes appear to be routine. Still worth verifying if expected."]

\* The level and the recommendation assessRisk gives for a score.
LevelOf(riskScore) ==
    IF riskScore >= 80
    THEN [level |-> "critical",
          recommendation |-> "IMMEDIATE ACTION REQUIRED: This appears to be a DNS hijacking. Verify immediately and consider blocking access."]
    ELSE IF riskScore >= 50
    THEN [level |-> "high",
          recommendation |-> "HIGH RISK: Significant suspicious indicators detected. Investigate immediately."]
    ELSE IF riskScore >= 25
    THEN [level |-> "medium",
          recommendation |-> "MEDIUM RISK: Some concerning changes detected. Verify if these changes were authorized."]
    ELSE [level |-> "low",
          recommendation |-> "LOW RISK: Changes appear to be routine. Still worth verifying if expected."]

\* The neutral factor pushed whatever the other factors are.
WithNeutralFactorAlways(factors) ==
    Append(factors, Factor("Minor infrastructure change detected", 0, <<>>))

\* if (factors.length === 0) factors.push(...)
WithNeutralFactor(factors) ==
    IF Len(factors) = 0
    THEN << Factor("Minor infrastructure change detected", 0, <<>>) >>
    ELSE factors

\* assessRisk(previous, current)
AssessRisk(previous, current) ==
    LET maliciousIPs == SelectSeq(current, IsMaliciousOf)
        prevCountries == TruthyValues(previous, CountryOf)
        currCountries == TruthyValues(current, CountryOf)
        newCountries == SelectSeq(currCountries, LAMBDA c : ~Includes(prevCountries, c))
        riskyCountries == SelectSeq(newCountries, LAMBDA c : Includes(highRiskCountries, c))
        prevASNs == TruthyValues(previous, OrganizationOf)
        currASNs == TruthyValues(current, OrganizationOf)
        newASNs == SelectSeq(currASNs, LAMBDA o : ~Includes(prevASNs, o))
        missingReverseDNS == SelectSeq(current, LAMBDA a : ~Truthy(a.reverseDns))
        malicious == Len(maliciousIPs) > 0
        moved == Len(newCountries) > 0
        risky == moved /\ Len(riskyCountries) > 0
        hosting == Len(newASNs) > 0
        noReverse == Len(missingReverseDNS) = Len(current) /\ Len(current) > 0
        factors ==
            (IF malicious
             THEN << Factor("IP(s) flagged as malicious", Len(maliciousIPs), <<>>) >>
             ELSE <<>>)
            \o (IF moved
                THEN << Factor("Geographic change: moved to", 0, newCountries) >>
                ELSE <<>>)
            \o (IF risky
                THEN << Factor("Moved to high-risk countries:", 0, riskyCountries) >>
                ELSE <<>>)
            \o (IF hosting
                THEN << Factor("Hosting provider changed to:", 0, newASNs) >>
                ELSE <<>>)
            \o (IF noReverse
                THEN << Factor("No reverse DNS configured (suspicious)", 0, <<>>) >>
                ELSE <<>>)
        riskScore ==
            (IF malicious THEN 50 * Len(maliciousIPs) ELSE 0)
            + (IF moved THEN 20 ELSE 0)
            + (IF risky THEN 30 ELSE 0)
            + (IF hosting THEN 15 ELSE 0)
            + (IF noReverse THEN 25 ELSE 0)
    IN  [level |-> LevelOf(riskScore).level,
         factors |-> WithNeutralFactor(factors),
         recommendation |-> LevelOf(riskScore).recommendation]

\* An IPAnalysis as the analyzer or a test builds it.
IPAnalysis(ip, country, organization, reputation, reverseDns) ==
    [ip |-> ip,
     geolocation |-> IF country = None THEN None ELSE Some([country |-> country]),
     asn |-> IF organization = None THEN None ELSE Some([organization |-> organization]),
     reputation |-> reputation,
     reverseDns |-> reverseDns]

Clean == Some([isClean |-> TRUE, isMalicious |-> None])

CleanChecked == Some([isClean |-> TRUE, isMalicious |-> Some(FALSE)])

Malicious == Some([isClean |-> FALSE, isMalicious |-> Some(TRUE)])

\* Analyses of the addresses a domain had before the change.
PreviousAnalyses ==
    { IPAnalysis("1.2.3.4", Some("United States"), Some("Cloudflare"), Clean, Some("example.com")),
      IPAnalysis("1.2.3.4", Some("United States"), None, Clean, None),
      IPAnalysis("1.2.3.4", Some("North Korea"), None, Clean, None) }

\* Analyses of the addresses it has now: the tests' cases, an address whose
\* lookups all failed, and one with an empty country and reverse DNS name.
CurrentAnalyses ==
    { IPAnalysis("1.2.3.5", Some("United States"), Some("Cloudflare"), CleanChecked, Some("example.com")),
      IPAnalysis("1.2.3.5", Some("United States"), Some("Cloudflare"), CleanChecked, None),
      IPAnalysis("5.6.7.8", Some("North Korea"), None, Clean, None),
      IPAnalysis("5.6.7.8", Some("France"), Some("Cloudflare"), CleanChecked, Some("example.com")),
      IPAnalysis("5.6.7.8", Some("United States"), Some("Digital Ocean"), Clean, Some("example.com")),
      IPAnalysis("5.6.7.8", Some("United States"), Some("Cloudflare"), Malicious, Some("example.com")),
      IPAnalysis("5.6.7.8", Some("Russia"), None, Malicious, None),
      IPAnalysis("8.8.8.8", None, None, None, None),
      IPAnalysis("8.8.8.8", Some(""), Some("Cloudflare"), CleanChecked, Some("")) }

ListsOf(set) == UNION { [1..n -> set] : n \in 0..MaxAnalyses }

InitRisk ==
    /\ CycleIdle
    /\ ChecksIdle
    /\ NoCall
    /\ kv = [key \in Keys |-> None]
    /\ \E previous \in ListsOf(PreviousAnalyses), current \in ListsOf(CurrentAnalyses) :
          riskInput = Some([previous |-> previous, current |-> current])
    /\ risk = None
    /\ analysisCall = None
    /\ analysisPc = <<>>
    /\ analysis = <<>>
    /\ lookups = <<>>
    /\ analysisRet = None

\* assessRisk is called on the two lists and returns.
AssessRiskCall ==
    /\ riskInput # None
    /\ risk = None
    /\ risk' = Some(AssessRisk(riskInput[1].previous, riskInput[1].current))
    /\ UNCHANGED <<kv, pc, cfg, resolverResults, errorLog, resolverDiscrepancy,
                   currentIPs, previousRecord, hasChanged, ret, cycleVars,
                   analysisStage, callVars,
                   riskInput, analysisCall, analysisPc, analysis, lookups,
                   analysisRet>>

NextRisk == AssessRiskCall

SpecRisk == InitRisk /\ [][NextRisk]_vars

\* ------------------------------------------------- checks of several keys

\* The store holds a different record for each record type of example.com
\* and none for example.org.
InitKeys ==
    /\ CycleIdle
    /\ ChecksIdle
    /\ AnalyzerIdle
    /\ NoCall
    /\ kv = [key \in Keys |->
               IF key = << "dns", "example.com", "A" >>
               THEN StoredRecord(key, << <<"a">> >>)
               ELSE IF key = << "dns", "example.com", "AAAA" >>
               THEN StoredRecord(key, << <<"a", ",", "a">> >>)
               ELSE None]

\* One invocation checking one entry after another, the queries of a check
\* settling in the order they were started.
NextKeys ==
    \E t \in SeqTasks :
        \/ \E config \in KeyConfigs : Start(t, config)
        \/ \E name \in ProviderNames, response \in CycleResponses :
               InDispatchOrder(t, name) /\ ResolverSettle(t, name, response)
        \/ JoinResolvers(t)
        \/ KvGetResolve(t)
        \/ KvGetReject(t)
        \/ KvPutResolve(t)
        \/ KvPutReject(t)

SpecKeys == InitKeys /\ [][NextKeys]_vars

\* ------------------------------------------- a sequence of checks of one key

\* The key has never been checked.
InitSequence ==
    /\ CycleIdle
    /\ ChecksIdle
    /\ AnalyzerIdle
    /\ NoCall
    /\ kv = [key \in Keys |-> None]

\* The scheduled invocations check the domain one after another: check i
\* is called once check i - 1 has returned.  Each check runs as its own
\* task, so that the results of the earlier ones stay visible.
NextSequence ==
    \E i \in 1..MaxChecks :
        \/ \E config \in Configs :
               /\ pc[TaskAt(i)] = "idle"
               /\ i > 1 => pc[TaskAt(i - 1)] = "done"
               /\ Start(TaskAt(i), config)
        \/ \E name \in ProviderNames, response \in CycleResponses :
               InDispatchOrder(TaskAt(i), name) /\ ResolverSettle(TaskAt(i), name, response)
        \/ JoinResolvers(TaskAt(i))
        \/ KvGetResolve(TaskAt(i))
        \/ KvGetReject(TaskAt(i))
        \/ KvPutResolve(TaskAt(i))
        \/ KvPutReject(TaskAt(i))

SpecSequence == InitSequence /\ [][NextSequence]_vars

\* ------------------------------------- two invocations checking one key

\* The tasks of the two invocations: the check of the domain by a scheduled
\* run and the check of the same domain by a manual /check.
RaceTasks == { "t1", "t2" }

\* Two invocations of the worker, each with its own DNSChecker on the same
\* store, check the same unseen key: the steps of the two checks interleave
\* in every way.
NextRace ==
    \E t \in RaceTasks :
        \/ \E config \in Configs : pc[t] = "idle" /\ Start(t, config)
        \/ \E name \in ProviderNames, response \in CycleResponses :
               InDispatchOrder(t, name) /\ ResolverSettle(t, name, response)
        \/ JoinResolvers(t)
        \/ KvGetResolve(t)
        \/ KvGetReject(t)
        \/ KvPutResolve(t)
        \/ KvPutReject(t)

SpecRace == InitSequence /\ [][NextRace]_vars

\* ----------------------------------------------------------------- lite mode

\* The configurations of a worker that monitors six domains and has the
\* Telegram section left at its placeholder.
LiteConfigs ==
    [domains : { LiteDomains }, telegram : { Some([botToken |-> "YOUR_BOT_TOKEN"]) }]

\* Every provider answers with the one address record "a".
LiteResponses ==
    { r \in CycleResponses : r.fetch = "resolve" /\ r.Answer[1][1].data = <<"a">> }

\* The store when the invocation starts: the first domain was never checked,
\* the second had the addresses it still has, the others had different ones.
InitLite ==
    /\ CycleIdle
    /\ ChecksIdle
    /\ AnalyzerIdle
    /\ NoCall
    /\ kv = [key \in Keys |->
               IF key = KvKey(LiteDomains[2]) THEN StoredRecord(key, << <<"a">> >>)
               ELSE IF \E i \in 3..Len(LiteDomains) : key = KvKey(LiteDomains[i])
               THEN StoredRecord(key, << <<"a", ",", "a">> >>)
               ELSE None]

\* Whether a check goes through the IP analysis stage: the stage is enabled,
\* the record type is A or AAAA, and the check found a change that is not a
\* first check.
RunsIpAnalysis(enabled, config, result) ==
    /\ enabled
    /\ RecordTypeOf(config) \in { "A", "AAAA" }
    /\ result.error = None
    /\ result.hasChanged
    /\ ~result.isFirstCheck

\* The IP analysis stage of a finished check, run or skipped.
IpAnalysisStage(t) ==
    /\ pc[t] = "done"
    /\ analysisStage[t] = None
    /\ enableIpAnalysis # None
    /\ analysisStage' =
           [analysisStage EXCEPT
               ![t] = Some(RunsIpAnalysis(enableIpAnalysis[1], cfg[t][1], ret[t][1]))]
    /\ UNCHANGED <<kv, pc, cfg, resolverResults, errorLog, resolverDiscrepancy,
                   currentIPs, previousRecord, hasChanged, ret, cycleVars,
                   analyzerVars, callVars>>

\* One invocation of the worker on six domains, by either trigger: the
\* checks run concurrently, each with its queries settling in the order they
\* were started, and the store answers every call.
NextLite ==
    \/ \E trigger \in Triggers, config \in LiteConfigs : PerformDNSCheck(trigger, config)
    \/ \E i \in 1..Len(domainsToCheck), name \in ProviderNames, response \in LiteResponses :
           InDispatchOrder(TaskAt(i), name) /\ ResolverSettle(TaskAt(i), name, response)
    \/ \E i \in 1..Len(domainsToCheck) : JoinResolvers(TaskAt(i))
    \/ \E i \in 1..Len(domainsToCheck) : KvGetResolve(TaskAt(i))
    \/ \E i \in 1..Len(domainsToCheck) : KvPutResolve(TaskAt(i))
    \/ \E i \in 1..Len(domainsToCheck) : IpAnalysisStage(TaskAt(i))
    \/ (\A i \in 1..Len(domainsToCheck) : analysisStage[TaskAt(i)] # None)
          /\ CheckDomainsResolve
    \/ PerformDNSCheckReturn

SpecLite == InitLite /\ [][NextLite]_vars

\* ------------------------------------------------- resolveDomain on its own

\* The record types a domain entry can ask for.
RecordTypes == { "A", "AAAA", "CNAME", "NS" }

\* Answer entries of every kind: address records (1 and 28), alias records
\* (5), nameserver records (2) and text records (16).
TypedAnswers == [type : { 1, 28, 5, 2, 16 }, data : { <<"a">> }]

TypedAnswerLists == UNION { [1..n -> TypedAnswers] : n \in 0..MaxLen }

\* What the provider gives back to the call: the failures, and every answer
\* list.
TypedResponses ==
    { r \in Responses : r.Answer = None }
    \cup { [fetch |-> "resolve", ok |-> TRUE, json |-> "valid", Status |-> 0,
            Answer |-> Some(list)] : list \in TypedAnswerLists }

InitResolve ==
    /\ CycleIdle
    /\ ChecksIdle
    /\ AnalyzerIdle
    /\ kv = [key \in Keys |-> None]
    /\ \E recordType \in RecordTypes, response \in TypedResponses :
          resolveInput = Some([recordType |-> recordType, response |-> response])
    /\ resolved = None

\* resolveDomain(domain, recordType, providerUrl) settles on the response
\* its fetch got.
ResolveDomainCall ==
    /\ resolveInput # None
    /\ resolved = None
    /\ resolved' = Some(ResolveDomain(resolveInput[1].response, resolveInput[1].recordType))
    /\ UNCHANGED <<kv, pc, cfg, resolverResults, errorLog, resolverDiscrepancy,
                   currentIPs, previousRecord, hasChanged, ret, cycleVars,
                   analyzerVars, analysisStage, resolveInput>>

NextResolve == ResolveDomainCall

SpecResolve == InitResolve /\ [][NextResolve]_vars

\* -------------------------------------------------------------- IP analysis

\* An address is the sequence of its characters, so that split('.') and
\* Number are computed rather than assumed.
Digits == << "0", "1", "2", "3", "4", "5", "6", "7", "8", "9" >>

IsDigit(c) == \E d \in 1..10 : Digits[d] = c

DigitValue(c) == (CHOOSE d \in 1..10 : Digits[d] = c) - 1

\* The value Number gives for what is not a number; every comparison with
\* it is false.
NaN == -1

\* Number(part) for the parts an address splits into: '' is 0, a run of
\* decimal digits its value, anything else NaN.
RECURSIVE Number(_)
Number(part) ==
    IF part = <<>> THEN 0
    ELSE IF \E i \in 1..Len(part) : ~IsDigit(part[i]) THEN NaN
    ELSE 10 * Number(SubSeq(part, 1, Len(part) - 1)) + DigitValue(part[Len(part)])

\* ip.split(separator)
RECURSIVE Split(_, _)
Split(chars, separator) ==
    IF \A i \in 1..Len(chars) : chars[i] # separator THEN << chars >>
    ELSE LET first == CHOOSE i \in 1..Len(chars) :
                          /\ chars[i] = separator
                          /\ \A j \in 1..(i - 1) : chars[j] # separator
         IN  << SubSeq(chars, 1, first - 1) >>
                \o Split(SubSeq(chars, first + 1, Len(chars)), separator)

\* isPrivateIP(ip)
IsPrivateIP(ip) ==
    LET parts == [i \in 1..Len(Split(ip, ".")) |-> Number(Split(ip, ".")[i])]
    IN  IF Len(parts) # 4 THEN FALSE
        ELSE \/ parts[1] = 10
             \/ parts[1] = 172 /\ parts[2] # NaN /\ parts[2] >= 16 /\ parts[2] <= 31
             \/ parts[1] = 192 /\ parts[2] = 168
             \/ parts[1] = 127

\* isIPInRange(ip, cidr): the first two parts of the address and of the
\* range, which is the text of cidr before its '/', are the same text.
IsIPInRange(ip, cidr) ==
    LET range == Split(cidr, "/")[1]
        ipParts == Split(ip, ".")
        rangeParts == Split(range, ".")
        FirstTwo(parts) == SubSeq(parts, 1, IF Len(parts) < 2 THEN Len(parts) ELSE 2)
    IN  FirstTwo(ipParts) = FirstTwo(rangeParts)

suspiciousASNs ==
    << [range |-> << "4", "5", ".", "1", "4", "2", ".", "1", "2", "0", ".", "0", "/", "2", "2" >>,
        name |-> "Known bulletproof hosting"],
       [range |-> << "1", "8", "5", ".", "2", "2", "0", ".", "1", "0", "0", ".", "0", "/", "2", "2" >>,
        name |-> "TOR exit nodes"],
       [range |-> << "1", "0", "4", ".", "2", "4", "4", ".", "7", "2", ".", "0", "/", "2", "1" >>,
        name |-> "Common phishing host"] >>

\* checkKnownBadRanges(ip)
CheckKnownBadRanges(ip) ==
    LET matching == SelectSeq(suspiciousASNs, LAMBDA asn : IsIPInRange(ip, asn.range))
    IN  [i \in 1..Len(matching) |-> matching[i].name]

\* What a fetch gives: a rejection (or a body that is not JSON), a response
\* that is not ok, or an ok response with its data.
Rejected == [kind |-> "rejected"]

NotOk == [kind |-> "notOk"]

Ok(data) == [kind |-> "ok", data |-> data]

IpApiResponses ==
    { Rejected, NotOk,
      Ok([status |-> "fail", country |-> None, city |-> None, org |-> None]),
      Ok([status |-> "success", country |-> Some("United States"),
          city |-> Some("Ashburn"), org |-> Some("Cloudflare")]) }

IpapiCoResponses ==
    { Rejected, NotOk,
      Ok([country_name |-> None, city |-> None, org |-> None]),
      Ok([country_name |-> Some("France"), city |-> Some("Paris"),
          org |-> Some("OVH")]) }

RadarResponses ==
    { Rejected, NotOk,
      Ok([threat_score |-> None]),
      Ok([threat_score |-> Some(10)]),
      Ok([threat_score |-> Some(80)]) }

PtrResponses ==
    { Rejected, NotOk,
      Ok([Answer |-> <<>>]),
      Ok([Answer |-> << "host.example.com." >>]) }

\* The step after getGeolocation settled with geoData (None for null).
SetGeolocation(a, geoData) ==
    IF geoData = None THEN a
    ELSE [a EXCEPT !.geolocation = Some(geoData[1].geolocation),
                   !.asn = Some(geoData[1].asn)]

\* getReputation once the primary source has settled.
GetReputation(ip, response) ==
    IF response.kind = "ok"
    THEN LET isMalicious == /\ response.data.threat_score # None
                            /\ response.data.threat_score[1] > 50
         IN  [isClean |-> ~isMalicious,
              isMalicious |-> Some(isMalicious),
              threatScore |-> response.data.threat_score,
              categories |-> <<>>,
              source |-> "cloudflare-radar"]
    ELSE IF Len(CheckKnownBadRanges(ip)) > 0
    THEN [isClean |-> FALSE,
          isMalicious |-> Some(TRUE),
          threatScore |-> None,
          categories |-> CheckKnownBadRanges(ip),
          source |-> "local-checks"]
    ELSE [isClean |-> TRUE,
          isMalicious |-> Some(FALSE),
          threatScore |-> None,
          categories |-> <<>>,
          source |-> "default"]

\* getReverseDns once the PTR query has settled.
GetReverseDns(response) ==
    IF response.kind = "ok" /\ Len(response.data.Answer) > 0
    THEN Some(response.data.Answer[1])
    ELSE None

\* The addresses analysed: private, loopback and public IPv4 addresses, one
\* of a known-bad range and one beside that range, and the IPv6 loopback and
\* a unique local address.
Addresses ==
    { << "1", "9", "2", ".", "1", "6", "8", ".", "1", ".", "1" >>,
      << "1", "0", ".", "0", ".", "0", ".", "1" >>,
      << "1", "7", "2", ".", "1", "6", ".", "0", ".", "1" >>,
      << "1", "7", "2", ".", "3", "2", ".", "0", ".", "1" >>,
      << "1", "2", "7", ".", "0", ".", "0", ".", "1" >>,
      << "8", ".", "8", ".", "8", ".", "8" >>,
      << "1", "8", "5", ".", "2", "2", "0", ".", "1", "0", "0", ".", "1" >>,
      << "1", "8", "5", ".", "2", "2", "0", ".", "0", ".", "1" >>,
      << ":", ":", "1" >>,
      << "f", "d", "0", "0", ":", ":", "1" >> }

\* options?.skipGeo, options?.skipReputation, options?.skipReverseDns
AnalysisOptions ==
    [skipGeo : BOOLEAN, skipReputation : BOOLEAN, skipReverseDns : BOOLEAN]

\* The sub-lookup analyzeIP reaches after the stage named, under its
\* options: the position of its next await, or "done" when it returns.
NextLookup(options, after) ==
    IF after = "start" /\ ~options.skipGeo THEN "ip-api"
    ELSE IF after \in { "start", "geo" } /\ ~options.skipReputation THEN "cloudflare-radar"
    ELSE IF after \in { "start", "geo", "reputation" } /\ ~options.skipReverseDns THEN "ptr"
    ELSE "done"

\* The fetch calls issued so far, with the one a call arriving at a
\* position issues.
Issue(log, position, ip) ==
    IF position = "done" THEN log
    ELSE Append(log, [service |-> position, ip |-> ip])

InitAnalyze ==
    /\ CycleIdle
    /\ ChecksIdle
    /\ NoCall
    /\ AnalyzerIdle
    /\ kv = [key \in Keys |-> None]

\* analyzeIP(ip, options) up to its first await: a private address returns
\* at once, any other goes to its first sub-lookup.
AnalyzeIP(ip, options) ==
    /\ analysisCall = None
    /\ analysisCall' = Some([entry |-> "analyzeIP", ips |-> << ip >>, options |-> options])
    /\ IF IsPrivateIP(ip)
       THEN /\ analysis' = << [ip |-> ip,
                               geolocation |-> Some([country |-> Some("Private IP"),
                                                     city |-> Some("Local Network")]),
                               asn |-> None,
                               reputation |-> Some([isClean |-> TRUE, isMalicious |-> None]),
                               reverseDns |-> None] >>
            /\ analysisPc' = << "done" >>
            /\ lookups' = lookups
       ELSE /\ analysis' = << [ip |-> ip, geolocation |-> None, asn |-> None,
                               reputation |-> None, reverseDns |-> None] >>
            /\ analysisPc' = << NextLookup(options, "start") >>
            /\ lookups' = Issue(lookups, NextLookup(options, "start"), ip)
    /\ UNCHANGED <<kv, pc, cfg, resolverResults, errorLog, resolverDiscrepancy,
                   currentIPs, previousRecord, hasChanged, ret, cycleVars,
                   analysisStage, callVars,
                   riskInput, risk, analysisRet>>

\* The analysis analyzeIP holds when it reaches its first await, or returns
\* for a private address.
FirstAnalysis(ip) ==
    IF IsPrivateIP(ip)
    THEN [ip |-> ip,
          geolocation |-> Some([country |-> Some("Private IP"),
                                city |-> Some("Local Network")]),
          asn |-> None,
          reputation |-> Some([isClean |-> TRUE, isMalicious |-> None]),
          reverseDns |-> None]
    ELSE [ip |-> ip, geolocation |-> None, asn |-> None,
          reputation |-> None, reverseDns |-> None]

\* The position of that first await.
FirstPosition(ip, options) ==
    IF IsPrivateIP(ip) THEN "done" ELSE NextLookup(options, "start")

\* The requests ips.map(ip => this.analyzeIP(ip, ...)) sends while it
\* builds the promises: each call runs to its first await before the next
\* call starts.
RECURSIVE IssueAll(_, _, _)
IssueAll(log, ips, options) ==
    IF ips = <<>> THEN log
    ELSE IssueAll(Issue(log, FirstPosition(Head(ips), options), Head(ips)),
                  Tail(ips), options)

\* The options of analyzeIPs handed on as they were given.
BulkOptionsAsGiven(options) == options

\* The options analyzeIPs gives each analyzeIP call.
BulkOptions(options) ==
    [skipGeo |-> options.skipGeo,
     skipReputation |-> options.skipReputation,
     skipReverseDns |-> TRUE]

\* analyzeIPs(ips, options) up to Promise.all: one analyzeIP call per
\* address, in the order of ips, each run to its first await.
AnalyzeIPs(ips, options) ==
    /\ analysisCall = None
    /\ analysisCall' = Some([entry |-> "analyzeIPs", ips |-> ips,
                             options |-> BulkOptions(options)])
    /\ analysis' = [i \in 1..Len(ips) |-> FirstAnalysis(ips[i])]
    /\ analysisPc' = [i \in 1..Len(ips) |-> FirstPosition(ips[i], BulkOptions(options))]
    /\ lookups' = IssueAll(lookups, ips, BulkOptions(options))
    /\ UNCHANGED <<kv, pc, cfg, resolverResults, errorLog, resolverDiscrepancy,
                   currentIPs, previousRecord, hasChanged, ret, cycleVars,
                   analysisStage, callVars,
                   riskInput, risk, analysisRet>>

\* The ip-api request of getGeolocation settles: a success fills
\* geolocation and asn, anything else goes on to ipapi.co.
IpApiSettle(i, response) ==
    /\ i \in 1..Len(analysisPc)
    /\ analysisPc[i] = "ip-api"
    /\ LET options == analysisCall[1].options
           ip == analysis[i].ip
           success == response.kind = "ok" /\ response.data.status = "success"
           geoData == Some([geolocation |-> [country |-> response.data.country,
                                             city |-> response.data.city],
                            asn |-> [organization |-> response.data.org]])
           position == IF success THEN NextLookup(options, "geo") ELSE "ipapi.co"
       IN  /\ analysis' = IF success
                          THEN [analysis EXCEPT ![i] = SetGeolocation(@, geoData)]
                          ELSE analysis
           /\ analysisPc' = [analysisPc EXCEPT ![i] = position]
           /\ lookups' = Issue(lookups, position, ip)
    /\ UNCHANGED <<kv, pc, cfg, resolverResults, errorLog, resolverDiscrepancy,
                   currentIPs, previousRecord, hasChanged, ret, cycleVars,
                   analysisStage, callVars,
                   riskInput, risk, analysisCall, analysisRet>>

\* The ipapi.co request settling as if a failed geolocation ended the
\* analysis of the address.
IpapiCoSettleAborting(i, response) ==
    /\ i \in 1..Len(analysisPc)
    /\ analysisPc[i] = "ipapi.co"
    /\ LET options == analysisCall[1].options
           ip == analysis[i].ip
           geoData == IF response.kind = "ok"
                      THEN Some([geolocation |-> [country |-> response.data.country_name,
                                                  city |-> response.data.city],
                                 asn |-> [organization |-> response.data.org]])
                      ELSE None
           position == IF response.kind = "ok" THEN NextLookup(options, "geo") ELSE "done"
       IN  /\ analysis' = [analysis EXCEPT ![i] = SetGeolocation(@, geoData)]
           /\ analysisPc' = [analysisPc EXCEPT ![i] = position]
           /\ lookups' = Issue(lookups, position, ip)
    /\ UNCHANGED <<kv, pc, cfg, resolverResults, errorLog, resolverDiscrepancy,
                   currentIPs, previousRecord, hasChanged, ret, cycleVars,
                   analysisStage, callVars,
                   riskInput, risk, analysisCall, analysisRet>>

\* The ipapi.co request settles: an ok response fills geolocation and asn
\* with whatever it carries, anything else leaves them undefined.
IpapiCoSettle(i, response) ==
    /\ i \in 1..Len(analysisPc)
    /\ analysisPc[i] = "ipapi.co"
    /\ LET options == analysisCall[1].options
           ip == analysis[i].ip
           geoData == IF response.kind = "ok"
                      THEN Some([geolocation |-> [country |-> response.data.country_name,
                                                  city |-> response.data.city],
                                 asn |-> [organization |-> response.data.org]])
                      ELSE None
           position == NextLookup(options, "geo")
       IN  /\ analysis' = [analysis EXCEPT ![i] = SetGeolocation(@, geoData)]
           /\ analysisPc' = [analysisPc EXCEPT ![i] = position]
           /\ lookups' = Issue(lookups, position, ip)
    /\ UNCHANGED <<kv, pc, cfg, resolverResults, errorLog, resolverDiscrepancy,
                   currentIPs, previousRecord, hasChanged, ret, cycleVars,
                   analysisStage, callVars,
                   riskInput, risk, analysisCall, analysisRet>>

\* The Cloudflare Radar request of getReputation settles.
RadarSettle(i, response) ==
    /\ i \in 1..Len(analysisPc)
    /\ analysisPc[i] = "cloudflare-radar"
    /\ LET options == analysisCall[1].options
           ip == analysis[i].ip
           position == NextLookup(options, "reputation")
       IN  /\ analysis' = [analysis EXCEPT
                              ![i].reputation = Some(GetReputation(ip, response))]
           /\ analysisPc' = [analysisPc EXCEPT ![i] = position]
           /\ lookups' = Issue(lookups, position, ip)
    /\ UNCHANGED <<kv, pc, cfg, resolverResults, errorLog, resolverDiscrepancy,
                   currentIPs, previousRecord, hasChanged, ret, cycleVars,
                   analysisStage, callVars,
                   riskInput, risk, analysisCall, analysisRet>>

\* The PTR query of getReverseDns settles.
PtrSettle(i, response) ==
    /\ i \in 1..Len(analysisPc)
    /\ analysisPc[i] = "ptr"
    /\ analysis' = [analysis EXCEPT ![i].reverseDns = GetReverseDns(response)]
    /\ analysisPc' = [analysisPc EXCEPT ![i] = "done"]
    /\ UNCHANGED <<kv, pc, cfg, resolverResults, errorLog, resolverDiscrepancy,
                   currentIPs, previousRecord, hasChanged, ret, cycleVars,
                   analysisStage, callVars,
                   riskInput, risk, analysisCall, lookups, analysisRet>>

\* Promise.all taken as resolving with the analyses that are ready once
\* one of them is.
AnalyzeReturnEarly ==
    /\ analysisCall # None
    /\ analysisRet = None
    /\ \/ analysisPc = <<>>
       \/ \E i \in 1..Len(analysisPc) : analysisPc[i] = "done"
    /\ analysisRet' =
           IF analysisCall[1].entry = "analyzeIP" THEN Some(analysis[1])
           ELSE Some(SelectSeq(analysis,
                         LAMBDA a : \E i \in 1..Len(analysis) :
                                        analysis[i] = a /\ analysisPc[i] = "done"))
    /\ UNCHANGED <<kv, pc, cfg, resolverResults, errorLog, resolverDiscrepancy,
                   currentIPs, previousRecord, hasChanged, ret, cycleVars,
                   analysisStage, callVars,
                   riskInput, risk, analysisCall, analysisPc, analysis, lookups>>

\* The call resolves: analyzeIP with its analysis, analyzeIPs, through
\* Promise.all, with the analyses of all its addresses in their order.
AnalyzeReturn ==
    /\ analysisCall # None
    /\ analysisRet = None
    /\ \A i \in 1..Len(analysisPc) : analysisPc[i] = "done"
    /\ analysisRet' = IF analysisCall[1].entry = "analyzeIP"
                      THEN Some(analysis[1])
                      ELSE Some(analysis)
    /\ UNCHANGED <<kv, pc, cfg, resolverResults, errorLog, resolverDiscrepancy,
                   currentIPs, previousRecord, hasChanged, ret, cycleVars,
                   analysisStage, callVars,
                   riskInput, risk, analysisCall, analysisPc, analysis, lookups>>

NextAnalyze ==
    \/ \E ip \in Addresses, options \in AnalysisOptions : AnalyzeIP(ip, options)
    \/ \E i \in 1..1, response \in IpApiResponses : IpApiSettle(i, response)
    \/ \E i \in 1..1, response \in IpapiCoResponses : IpapiCoSettle(i, response)
    \/ \E i \in 1..1, response \in RadarResponses : RadarSettle(i, response)
    \/ \E i \in 1..1, response \in PtrResponses : PtrSettle(i, response)
    \/ AnalyzeReturn

SpecAnalyze == InitAnalyze /\ [][NextAnalyze]_vars

\* ---------------------------------------------------------- batch analysis

\* The addresses of a batch: a public one, one of a known-bad range and a
\* private one.
BatchAddresses ==
    { << "8", ".", "8", ".", "8", ".", "8" >>,
      << "1", "8", "5", ".", "2", "2", "0", ".", "1", "0", "0", ".", "1" >>,
      << "1", "9", "2", ".", "1", "6", "8", ".", "1", ".", "1" >> }

BatchLists == UNION { [1..n -> BatchAddresses] : n \in 0..MaxAnalyses }

\* What the lookups of a batch are answered with: each source fails or
\* answers with its data.
BatchIpApiResponses ==
    { r \in IpApiResponses :
        r.kind # "notOk" /\ (r.kind = "ok" => r.data.status = "success") }

BatchIpapiCoResponses ==
    { r \in IpapiCoResponses :
        r.kind # "rejected" /\ (r.kind = "ok" => r.data.city # None) }

BatchRadarResponses ==
    { r \in RadarResponses :
        r.kind # "notOk" /\ (r.kind = "ok" => r.data.threat_score # None) }

\* The analyses of the addresses the domain had before.
BatchPrevious ==
    { << IPAnalysis("1.2.3.4", Some("United States"), Some("Cloudflare"), Clean,
                    Some("example.com")) >> }

\* assessRisk is handed the list analyzeIPs returned as the current
\* analyses.
AssessReturned(previous) ==
    /\ analysisCall # None
    /\ analysisCall[1].entry = "analyzeIPs"
    /\ analysisRet # None
    /\ riskInput = None
    /\ riskInput' = Some([previous |-> previous, current |-> analysisRet[1]])
    /\ UNCHANGED <<kv, pc, cfg, resolverResults, errorLog, resolverDiscrepancy,
                   currentIPs, previousRecord, hasChanged, ret, cycleVars,
                   analysisStage, callVars,
                   risk, analysisCall, analysisPc, analysis, lookups, analysisRet>>

NextBatch ==
    \/ \E ips \in BatchLists, options \in AnalysisOptions : AnalyzeIPs(ips, options)
    \/ \E i \in 1..MaxAnalyses, response \in BatchIpApiResponses :
           IpApiSettle(i, response)
    \/ \E i \in 1..MaxAnalyses, response \in BatchIpapiCoResponses :
           IpapiCoSettle(i, response)
    \/ \E i \in 1..MaxAnalyses, response \in BatchRadarResponses :
           RadarSettle(i, response)
    \/ AnalyzeReturn
    \/ \E previous \in BatchPrevious : AssessReturned(previous)
    \/ AssessRiskCall

SpecBatch == InitAnalyze /\ [][NextBatch]_vars

\* ---------------------------------------------------------- claim vocabulary

ToSet(list) == { list[i] : i \in 1..Len(list) }

Count(v, list) == Cardinality({ i \in 1..Len(list) : list[i] = v })

\* The same values the same number of times each, in any order.
SameMultiset(list1, list2) ==
    \A v \in ToSet(list1) \cup ToSet(list2) : Count(v, list1) = Count(v, list2)

\* The step in which checkDomain returns.
Completes(t) == pc[t] # "done" /\ pc'[t] = "done"

\* The providers whose failure the check of t logged.
LoggedNames(t) == { e.name : e \in errorLog[t] }

\* The key the check of t reads and writes.
KeyOf(t) == KvKey(cfg[t][1])

\* ------------------------------------------------------------------ C1

C3_StoreHoldsCurrentIPs ==
    \A t \in Tasks :
        (pc[t] = "done" /\ ret[t][1].error = None)
            => /\ kv[KeyOf(t)] # None
               /\ JSONParse(kv[KeyOf(t)][1]).ips = ret[t][1].currentIPs

\* A check that reported no change and still replaced the stored list by
\* its own, differently ordered one.
C3_Witness ==
    \E t \in Tasks :
        /\ pc[t] = "done"
        /\ ret[t][1].error = None
        /\ ~ret[t][1].isFirstCheck
        /\ ~ret[t][1].hasChanged
        /\ ret[t][1].previousIPs # ret[t][1].currentIPs
        /\ kv[KeyOf(t)] # None
        /\ JSONParse(kv[KeyOf(t)][1]).ips = ret[t][1].currentIPs

\* ------------------------------------------------------------------ C4

\* C4 (as claimed): when every resolver failed, the result has the error
\* field set, hasChanged = true and empty currentIPs.
C4_AllFailedReportsError ==
    \A t \in Tasks :
        (pc[t] = "done" /\ LoggedNames(t) = ProviderNames)
            => /\ ret[t][1].error # None
               /\ ret[t][1].hasChanged
               /\ ret[t][1].currentIPs = <<>>

\* ------------------------------------------------------------------ C5

\* C5 (as claimed): a check in which every resolver failed writes nothing
\* to the history store.
C5_AllFailedNoWrite ==
    [][ \A t \in Tasks :
          (Completes(t) /\ LoggedNames(t) = ProviderNames) => kv' = kv ]_vars

\* ------------------------------------------------------------------ C6

\* C6: in resolveDomainMultiple a resolver whose query fails (rejected
\* fetch, non-OK response, body that does not parse, non-zero DNS status)
\* contributes an empty list under its own name; the entries of the other
\* resolvers stay as they were, and no exception reaches checkDomain (no
\* error result is returned).
C6_FailedResolverEmptyList ==
    [][ \A t \in Tasks :
          /\ \A e \in errorLog'[t] :
                /\ ObjectHas(resolverResults'[t], e.name)
                /\ ObjectGet(resolverResults'[t], e.name) = <<>>
          /\ \A i \in 1..Len(resolverResults[t]) :
                /\ i <= Len(resolverResults'[t])
                /\ resolverResults'[t][i] = resolverResults[t][i]
          /\ ret'[t] = None ]_vars

\* All queries have settled, one of them failed, and the other two
\* resolvers still have their non-empty lists.
C6_Witness ==
    \E t \in Tasks :
        /\ pc[t] = "get"
        /\ Cardinality(LoggedNames(t)) = 1
        /\ \A name \in ProviderNames \ LoggedNames(t) :
              ObjectGet(resolverResults[t], name) # <<>>
        /\ \E e \in errorLog[t] : e.message = "DNS query returned status"

\* ------------------------------------------------------------------ C7

\* The non-empty lists of a per-resolver map, in iteration order.
ValidLists(results) == SelectSeq(ObjectValues(results), NonEmpty)

\* The rearrangements of a list.
PermsOf(list) ==
    { s \in [1..Len(list) -> ToSet(list)] : SameMultiset(s, list) }

\* The per-resolver maps that differ from `results` only in the order of
\* the values inside the lists.
RECURSIVE Reorderings(_)
Reorderings(results) ==
    IF results = <<>> THEN { <<>> }
    ELSE { <<[name |-> Head(results).name, ips |-> p]>> \o rest :
             p \in PermsOf(Head(results).ips), rest \in Reorderings(Tail(results)) }

\* C7: checkResolverDiscrepancy is true exactly when at least two resolvers
\* returned non-empty lists and some two of those lists differ once sorted;
\* reordering the values inside the lists never changes the result.
C7_DiscrepancyIffTwoDiffer ==
    \A t \in Tasks :
        pc[t] = "get" =>
            LET valid == ValidLists(resolverResults[t]) IN
            /\ resolverDiscrepancy[t][1]
                 <=> /\ Len(valid) >= 2
                     /\ \E i, j \in 1..Len(valid) :
                           SortStrings(valid[i]) # SortStrings(valid[j])
            /\ \A other \in Reorderings(resolverResults[t]) :
                  CheckResolverDiscrepancy(other) = resolverDiscrepancy[t][1]

\* Three non-empty lists: the first two hold the same values in a different
\* order, the third differs from them, and the discrepancy is reported.
C7_Witness ==
    \E t \in Tasks :
        /\ pc[t] = "get"
        /\ resolverDiscrepancy[t] = Some(TRUE)
        /\ LET valid == ValidLists(resolverResults[t]) IN
           /\ Len(valid) = 3
           /\ valid[1] # valid[2]
           /\ SameMultiset(valid[1], valid[2])
           /\ ~SameMultiset(valid[2], valid[3])

\* ------------------------------------------------------------------ C8

\* `result` is the list of a member of a largest group of the non-empty
\* lists of `results` under the grouping SameGroup (the empty list when
\* there is no non-empty list); with `first`, of the first member of that
\* group.
IsMostCommon(results, SameGroup(_, _), first, result) ==
    LET valid == ValidLists(results)
        size(i) == Cardinality({ j \in 1..Len(valid) : SameGroup(valid[j], valid[i]) })
    IN  IF Len(valid) = 0 THEN result = <<>>
        ELSE \E i \in 1..Len(valid) :
                /\ result = valid[i]
                /\ first => \A j \in 1..(i - 1) : ~SameGroup(valid[j], valid[i])
                /\ \A j \in 1..Len(valid) : size(i) >= size(j)

SameSortedContent(ips1, ips2) == SortStrings(ips1) = SortStrings(ips2)

SameSortedJoined(ips1, ips2) ==
    JoinComma(SortStrings(ips1)) = JoinComma(SortStrings(ips2))

\* C8 (as claimed): getMostCommonResult groups the non-empty lists by sorted
\* content and returns the list of (a member of) the group with the highest
\* member count, the empty list when every list is empty.
C8_GroupsBySortedContent ==
    \A t \in Tasks :
        pc[t] = "get" =>
            IsMostCommon(resolverResults[t], SameSortedContent, FALSE, currentIPs[t])

\* C8 (amended): getMostCommonResult groups the non-empty lists by the
\* comma-joined text of their sorted values and returns, in its original
\* order, the list of the first member of a group with the highest member
\* count; it returns the empty list when every list is empty.
C8_GroupsBySortedJoined ==
    \A t \in Tasks :
        pc[t] = "get" =>
            /\ IsMostCommon(resolverResults[t], SameSortedJoined, TRUE, currentIPs[t])
            /\ currentIPs[t] = <<>>
                 <=> \A i \in 1..Len(resolverResults[t]) : resolverResults[t][i].ips = <<>>

\* The group of two wins over the list that came first, and its list is
\* returned in the order its first member had, which is not the sorted one.
C8_Witness ==
    \E t \in Tasks :
        /\ pc[t] = "get"
        /\ LET valid == ValidLists(resolverResults[t]) IN
           /\ Len(valid) = 3
           /\ ~SameSortedJoined(valid[1], valid[2])
           /\ SameSortedJoined(valid[2], valid[3])
           /\ valid[2] # valid[3]
           /\ currentIPs[t] = valid[2]
           /\ currentIPs[t] # SortStrings(currentIPs[t])

\* ------------------------------------------------------------------ C9

\* The per-resolver map with its entries in the order of dohProviders.
InProviderOrder(results) ==
    [i \in 1..Len(dohProviders) |->
        [name |-> dohProviders[i], ips |-> ObjectGet(results, dohProviders[i])]]

\* C9 (as claimed): under ties the first group in resolver order wins, so
\* the consensus depends only on what each resolver answered: it is what
\* the selection gives on the answers taken in the order of the providers,
\* whatever order the queries completed in.
C9_ConsensusIndependentOfCompletionOrder ==
    \A t \in Tasks :
        pc[t] = "get" =>
            currentIPs[t] = GetMostCommonResult(InProviderOrder(resolverResults[t]))

\* ------------------------------------------------------------------ C10

\* The lists of the resolvers that did not fail, in a returned result.
AnsweredLists(t) ==
    LET results == ret[t][1].resolverResults[1]
        answered == SelectSeq(results, LAMBDA e : e.name \notin LoggedNames(t))
    IN  ObjectValues(answered)

\* The entries of a per-resolver map whose list is not empty.
WithoutEmpty(results) == SelectSeq(results, LAMBDA e : NonEmpty(e.ips))

CycleTasks == { TaskAt(i) : i \in 1..Len(domainsToCheck) }

\* Task t takes a step of its check.
Steps(t) ==
    /\ pc[t] # "idle"
    /\ pc'[t] # pc[t] \/ resolverResults'[t] # resolverResults[t]

\* A step leaves the check of task u, and the record under its key, alone.
Untouched(u) ==
    /\ pc'[u] = pc[u]
    /\ resolverResults'[u] = resolverResults[u]
    /\ errorLog'[u] = errorLog[u]
    /\ currentIPs'[u] = currentIPs[u]
    /\ previousRecord'[u] = previousRecord[u]
    /\ hasChanged'[u] = hasChanged[u]
    /\ ret'[u] = ret[u]
    /\ kv'[KvKey(cfg[u][1])] = kv[KvKey(cfg[u][1])]

\* Once checkDomains has resolved, it has done so with one result per
\* entry, in the order of the entries, each the result its checkDomain call
\* returned.
OneResultPerDomainInOrder ==
    cyclePc \in { "notifying", "returned" } =>
        /\ cycleResults # None
        /\ Len(cycleResults[1]) = Len(domainsToCheck)
        /\ \A i \in 1..Len(domainsToCheck) :
              /\ cycleResults[1][i].domain = domainsToCheck[i].domain
              /\ cycleResults[1][i] = ret[TaskAt(i)][1]

\* C11: checkDomains returns one result per configured domain, in
\* configuration order, and never rejects; a failure of a domain's check
\* (every resolver query failed, or the history store failed) shows as the
\* error field of that domain's result; and no step of one domain's check
\* touches the check, the result or the stored record of a sibling.
C11_FailureShowsAsErrorOfItsDomain ==
    [][ /\ OneResultPerDomainInOrder'
        /\ \A t \in CycleTasks :
              /\ Completes(t) /\ (LoggedNames(t) = ProviderNames \/ pc[t] = "get")
                    => ret'[t][1].error # None
              /\ Steps(t) => \A u \in CycleTasks \ { t } : Untouched(u) ]_vars

\* ------------------------------------------------------------------ C12

\* The results of the cycle that call for a notification.
Notable ==
    SelectSeq(cycleResults[1],
              LAMBDA r : (r.hasChanged /\ ~r.isFirstCheck) \/ r.resolverDiscrepancy = Some(TRUE))

\* The cycle is over and its results went to the Telegram handler.
Notified ==
    /\ cyclePc = "returned"
    /\ TelegramConfigured(invocation[1].config)

CoveredBy(k) ==
    { r \in ToSet(cycleResults[1]) :
        \E i \in 1..Len(sent[k].blocks) :
            /\ sent[k].blocks[i].domain = r.domain
            /\ sent[k].blocks[i].currentIPs = r.currentIPs }

Assessed == risk # None

Previous == riskInput[1].previous

Current == riskInput[1].current

\* A country, an organization and a reverse DNS name count when they are
\* present and not the empty string.
Countries(list) ==
    { list[i].geolocation[1].country[1] :
        i \in { j \in 1..Len(list) :
                  /\ list[j].geolocation # None
                  /\ list[j].geolocation[1].country \notin { None, Some("") } } }

Organizations(list) ==
    { list[i].asn[1].organization[1] :
        i \in { j \in 1..Len(list) :
                  /\ list[j].asn # None
                  /\ list[j].asn[1].organization \notin { None, Some("") } } }

FlaggedMalicious(list) ==
    { i \in 1..Len(list) :
        /\ list[i].reputation # None
        /\ list[i].reputation[1].isMalicious = Some(TRUE) }

HasReverseDns(a) == a.reverseDns \notin { None, Some("") }

HighRisk == { "Russia", "China", "North Korea", "Iran" }

NewCountries == Countries(Current) \ Countries(Previous)

\* The additive score of the claim.
Score ==
    50 * Cardinality(FlaggedMalicious(Current))
    + (IF NewCountries # {} THEN 20 ELSE 0)
    + (IF NewCountries \cap HighRisk # {} THEN 30 ELSE 0)
    + (IF Organizations(Current) \ Organizations(Previous) # {} THEN 15 ELSE 0)
    + (IF Current # <<>> /\ \A i \in 1..Len(Current) : ~HasReverseDns(Current[i])
       THEN 25 ELSE 0)

FactorTexts == { risk[1].factors[i].text : i \in 1..Len(risk[1].factors) }

ImmediateAction ==
    "IMMEDIATE ACTION REQUIRED: This appears to be a DNS hijacking. Verify immediately and consider blocking access."

LowRecommendation ==
    "LOW RISK: Changes appear to be routine. Still worth verifying if expected."

OnlyCountryAndClean(a) ==
    /\ a.geolocation # None /\ a.geolocation[1].country \notin { None, Some("") }
    /\ a.asn = None
    /\ a.reverseDns = None
    /\ a.reputation # None
    /\ a.reputation[1].isClean
    /\ a.reputation[1].isMalicious # Some(TRUE)

\* C17: when the previous and current analyses carry only a country and a
\* clean reputation, and a current country is a high-risk country absent
\* from the previous countries, the level is high and the factors include
\* the geographic-change line and the high-risk-country line.
C17_NewHighRiskCountryIsHigh ==
    (/\ Assessed
     /\ \A i \in 1..Len(Previous) : OnlyCountryAndClean(Previous[i])
     /\ \A i \in 1..Len(Current) : OnlyCountryAndClean(Current[i])
     /\ NewCountries \cap HighRisk # {})
        => /\ risk[1].level = "high"
           /\ { "Geographic change: moved to", "Moved to high-risk countries:" }
                 \subseteq FactorTexts

\* The case of the test: United States before, North Korea now.
C17_Witness ==
    /\ Assessed
    /\ Len(Previous) = 1 /\ OnlyCountryAndClean(Previous[1])
    /\ Countries(Previous) = { "United States" }
    /\ Len(Current) = 1 /\ OnlyCountryAndClean(Current[1])
    /\ Countries(Current) = { "North Korea" }
    /\ risk[1].level = "high"
    /\ Len(risk[1].factors) = 3

\* C18: assessRisk always returns at least one factor; the neutral factor
\* is returned exactly when no scoring rule fired, then as the only factor
\* and with the level low and the low recommendation.
C18_NeutralFactorIffNothingFired ==
    Assessed =>
        /\ Len(risk[1].factors) >= 1
        /\ "Minor infrastructure change detected" \in FactorTexts <=> Score = 0
        /\ "Minor infrastructure change detected" \in FactorTexts =>
              /\ Len(risk[1].factors) = 1
              /\ risk[1].level = "low"
              /\ risk[1].recommendation = LowRecommendation

\* A change between addresses of the same country and provider, with
\* reverse DNS: nothing fires and the neutral factor stands alone.
C18_Witness ==
    /\ Assessed
    /\ Previous # <<>>
    /\ Current # <<>>
    /\ Previous[1].ip # Current[1].ip
    /\ Score = 0
    /\ FactorTexts = { "Minor infrastructure change detected" }

\* ----------------------------------------------------------------------- C14

\* The private and loopback addresses among those analysed: 10.0.0.0/8,
\* 172.16.0.0/12, 192.168.0.0/16 and 127.0.0.0/8 for A values, the loopback
\* ::1 and the unique local range fc00::/7 for AAAA values.
PrivateOrLoopback ==
    { << "1", "9", "2", ".", "1", "6", "8", ".", "1", ".", "1" >>,
      << "1", "0", ".", "0", ".", "0", ".", "1" >>,
      << "1", "7", "2", ".", "1", "6", ".", "0", ".", "1" >>,
      << "1", "2", "7", ".", "0", ".", "0", ".", "1" >>,
      << ":", ":", "1" >>,
      << "f", "d", "0", "0", ":", ":", "1" >> }

\* C14: analyzeIP on a private or loopback address, A or AAAA value, never
\* issues an external lookup, and it returns reputation.isClean = true with
\* the geolocation 'Private IP' / 'Local Network'.
C14_PrivateAddressIsNeverLookedUp ==
    \A i \in 1..Len(analysis) :
        analysis[i].ip \in PrivateOrLoopback =>
            /\ \A l \in 1..Len(lookups) : lookups[l].ip # analysis[i].ip
            /\ analysisRet # None =>
                  /\ analysisRet[1].reputation # None
                  /\ analysisRet[1].reputation[1].isClean
                  /\ analysisRet[1].geolocation =
                        Some([country |-> Some("Private IP"),
                              city |-> Some("Local Network")])

\* ----------------------------------------------------------------------- C20

\* The kind of an answer entry, from its type code, and the kind a record
\* type asks for.
KindOf(answer) ==
    CASE answer.type \in { 1, 28 } -> "address"
      [] answer.type = 5 -> "alias"
      [] answer.type = 2 -> "nameserver"
      [] OTHER -> "other"

KindAsked(recordType) ==
    CASE recordType \in { "A", "AAAA" } -> "address"
      [] recordType = "CNAME" -> "alias"
      [] recordType = "NS" -> "nameserver"

\* C20: resolveDomain returns the data of exactly the answer entries whose
\* kind matches the requested type (address records for A or AAAA, alias
\* records for CNAME, nameserver records for NS), in the order of the
\* answer, and discards every entry of another kind.
C20_KeepsOnlyTheKindAsked ==
    (/\ resolved # None
     /\ ~resolved[1].threw
     /\ resolveInput[1].response.Answer # None)
        => LET matching ==
                   SelectSeq(resolveInput[1].response.Answer[1],
                             LAMBDA answer :
                                 KindOf(answer) = KindAsked(resolveInput[1].recordType))
           IN  resolved[1].ips = [i \in 1..Len(matching) |-> matching[i].data]

\* ----------------------------------------------------------------------- C19

\* The entries an invocation has started a check for, by position in the
\* configuration.
Checked == { i \in 1..Len(LiteDomains) : cfg[TaskAt(i)] # None }

\* The invocation checks exactly the first `count` configured domains, in
\* the order of the configuration.
ChecksFirst(count) ==
    LET domains == invocation[1].config.domains
    IN  /\ Len(domainsToCheck) = count
        /\ Checked = 1..count
        /\ \A i \in 1..count :
              /\ domainsToCheck[i] = domains[i]
              /\ cfg[TaskAt(i)] = Some(domains[i])
        /\ cycleResults # None =>
              /\ Len(cycleResults[1]) = count
              /\ \A i \in 1..count : cycleResults[1][i].domain = domains[i].domain

\* C19: an invocation by /check runs in lite mode: it checks the first 5
\* configured domains (all of them when there are fewer), in configuration
\* order, with IP analysis disabled, so that no check goes through the IP
\* analysis stage; a scheduled invocation checks every configured domain
\* with IP analysis enabled.
C19_ManualCheckIsLite ==
    invocation # None =>
        LET count == Len(invocation[1].config.domains)
        IN  IF invocation[1].trigger = "/check"
            THEN /\ ChecksFirst(IF count < 5 THEN count ELSE 5)
                 /\ enableIpAnalysis = Some(FALSE)
                 /\ \A t \in Tasks : analysisStage[t] # Some(TRUE)
            ELSE /\ ChecksFirst(count)
                 /\ enableIpAnalysis = Some(TRUE)

\* A /check invocation on six domains has returned five results: the sixth
\* domain was not checked and its record is as it was, and the changed
\* domains were not analysed.
C19_Witness ==
    /\ invocation # None
    /\ invocation[1].trigger = "/check"
    /\ Len(invocation[1].config.domains) = 6
    /\ cyclePc = "returned"
    /\ Len(cycleResults[1]) = 5
    /\ cycleResults[1][5].hasChanged
    /\ analysisStage[TaskAt(5)] = Some(FALSE)
    /\ pc[TaskAt(6)] = "idle"
    /\ kv[KvKey(LiteDomains[6])] = StoredRecord(KvKey(LiteDomains[6]), << <<"a", ",", "a">> >>)

\* ----------------------------------------------------------------------- C21

\* The step in which task t runs the discrepancy test and the consensus
\* selection.
RunsConsensus(t) ==
    /\ pc[t] = "resolving"
    /\ pc'[t] = "get"

\* C21: within one check, the discrepancy test and the consensus selection
\* run only after every resolver query has returned or failed, on the map
\* that holds an entry for every resolver; after they have run no entry of
\* the map is added or changed, and the map the check returns is that one.
C21_ConsensusAfterEveryResolver ==
    [][\A t \in Tasks :
          /\ RunsConsensus(t) =>
                /\ ToSet(ObjectKeys(resolverResults[t])) = ProviderNames
                /\ resolverResults'[t] = resolverResults[t]
                /\ resolverDiscrepancy'[t] = Some(CheckResolverDiscrepancy(resolverResults[t]))
                /\ currentIPs'[t] = GetMostCommonResult(resolverResults[t])
          /\ ~RunsConsensus(t) =>
                \/ (resolverDiscrepancy'[t] = resolverDiscrepancy[t]
                      /\ currentIPs'[t] = currentIPs[t])
                \/ pc'[t] = "done"
          /\ pc[t] \in { "get", "put" } =>
                \/ resolverResults'[t] = resolverResults[t]
                \/ /\ pc'[t] = "done"
                   /\ ret'[t][1].error = None =>
                         ret'[t][1].resolverResults = Some(resolverResults[t])]_vars

\* The consensus has run on a map in which one resolver failed and another
\* answered.
C21_Witness ==
    /\ pc["t1"] = "get"
    /\ errorLog["t1"] # {}
    /\ currentIPs["t1"] # <<>>
    /\ Len(resolverResults["t1"]) = Len(dohProviders)

\* ----------------------------------------------------------------------- C22

\* The key of the claim for the entry task t checks.
ClaimedKey(t) ==
    << "dns", cfg[t][1].domain,
       IF cfg[t][1].recordType = None THEN "A" ELSE cfg[t][1].recordType[1] >>

\* C22: a check of (domain, recordType) reads and writes only the key
\* 'dns:' + domain + ':' + recordType, recordType defaulting to A: the
\* previous record it works with is the one stored under that key, and no
\* step of the check changes the record of another key, the same domain
\* under another record type included.
C22_OnlyItsOwnKey ==
    [][\A t \in Tasks :
          cfg[t] # None /\ pc[t] \notin { "idle", "done" } =>
              /\ ClaimedKey(t) \in Keys
              /\ \A key \in Keys \ { ClaimedKey(t) } : kv'[key] = kv[key]
              /\ pc[t] = "get" /\ pc'[t] = "put" =>
                    previousRecord'[t] = ParsePrevious(kv[ClaimedKey(t)])
              /\ pc[t] = "put" /\ pc'[t] = "done" /\ ret'[t][1].error = None =>
                    /\ kv'[ClaimedKey(t)] # None
                    /\ ParsePrevious(kv'[ClaimedKey(t)])[1].ips = ret'[t][1].currentIPs]_vars

\* A check of example.com under AAAA has written its record while the
\* record of example.com under A is the one the store started with.
C22_Witness ==
    /\ pc["t1"] = "done"
    /\ cfg["t1"] = Some([domain |-> "example.com", recordType |-> Some("AAAA")])
    /\ ret["t1"][1].error = None
    /\ ret["t1"][1].hasChanged
    /\ ret["t1"][1].previousIPs = << <<"a", ",", "a">> >>
    /\ kv[<< "dns", "example.com", "AAAA" >>] = StoredRecord(<< "dns", "example.com", "AAAA" >>, << <<"a">> >>)
    /\ kv[<< "dns", "example.com", "A" >>] = StoredRecord(<< "dns", "example.com", "A" >>, << <<"a">> >>)

\* ----------------------------------------------------------------------- C26

\* The checks 1..n of the sequence have returned, all without error.
ErrorFree(n) ==
    \A i \in 1..n :
        /\ pc[TaskAt(i)] = "done"
        /\ ret[TaskAt(i)][1].error = None

\* C26: in a sequence of sequential, error-free checks of one key that had
\* no record, exactly the first check has isFirstCheck = true, and every
\* later check has as previousIPs the currentIPs of the check right before
\* it, with hasChanged true exactly when its currentIPs differ from those
\* values (as multisets).
C26_EachCheckBuildsOnTheOneBefore ==
    \A n \in 1..MaxChecks :
        ErrorFree(n) =>
            /\ ret[TaskAt(1)][1].isFirstCheck
            /\ \A i \in 2..n :
                  /\ ~ret[TaskAt(i)][1].isFirstCheck
                  /\ ret[TaskAt(i)][1].previousIPs = ret[TaskAt(i - 1)][1].currentIPs
                  /\ ret[TaskAt(i)][1].hasChanged
                        <=> ~SameMultiset(ret[TaskAt(i)][1].currentIPs,
                                          ret[TaskAt(i - 1)][1].currentIPs)

\* The sequence has run to its end without error, and its last check found
\* a change against the values of the check before it.
C26_Witness ==
    /\ ErrorFree(MaxChecks)
    /\ ret[TaskAt(MaxChecks)][1].hasChanged
    /\ ret[TaskAt(MaxChecks)][1].previousIPs # <<>>
    /\ ret[TaskAt(MaxChecks)][1].currentIPs # <<>>

\* ----------------------------------------------------------------------- C27

\* Task t has returned from the try block: it has written its record.
Wrote(t) == pc[t] = "done" /\ ret[t][1].error = None

Latest(i) == i = MaxChecks \/ pc[TaskAt(i + 1)] = "idle"

\* The checks before check i that returned without error.
WroteBefore(i) ==
    { j \in 1..(i - 1) : pc[TaskAt(j)] = "done" /\ ret[TaskAt(j)][1].error = None }

\* The record of the key when check i was called: the one written by the
\* last check before it that returned without error, none if there is no
\* such check.
RecordBefore(i) ==
    IF WroteBefore(i) = {} THEN None
    ELSE LET j == CHOOSE k \in WroteBefore(i) : \A l \in WroteBefore(i) : l <= k
         IN  StoredRecord(KeyOf(TaskAt(j)), ret[TaskAt(j)][1].currentIPs)

\* C28: when checkDomain returns a result with the error field set, the
\* history store is exactly as it was when the check was called: the key's
\* record is the one it had, or still missing, and no other key has
\* changed.
C28_ErroredCheckLeavesStore ==
    \A i \in 1..MaxChecks :
        (/\ pc[TaskAt(i)] = "done"
         /\ ret[TaskAt(i)][1].error # None
         /\ Latest(i))
            => /\ kv[KeyOf(TaskAt(i))] = RecordBefore(i)
               /\ \A key \in Keys \ { KeyOf(TaskAt(i)) } : kv[key] = None

\* The last check failed on its kvStore.put after a check that stored
\* values: the store still holds the record of the earlier check.
C28_Witness ==
    /\ MaxChecks > 1
    /\ pc[TaskAt(MaxChecks)] = "done"
    /\ ret[TaskAt(MaxChecks)][1].error = Some("KV put failed")
    /\ WroteBefore(MaxChecks) # {}
    /\ kv[KeyOf(TaskAt(MaxChecks))] # None
    /\ JSONParse(kv[KeyOf(TaskAt(MaxChecks))][1]).ips # <<>>
    /\ kv[KeyOf(TaskAt(MaxChecks))] = RecordBefore(MaxChecks)

\* ------------------------------------------------------------------- C29

\* C29: the consensus currentIPs of a check is empty exactly when every
\* resolver's list is empty; otherwise it is, value for value and in the same
\* order, the list one of the resolvers returned.
C29_ConsensusIsOneResolversList ==
    [][\A t \in Tasks :
          RunsConsensus(t) =>
              LET lists == ObjectValues(resolverResults[t]) IN
              /\ (currentIPs'[t] = <<>>) <=>
                     (\A i \in 1..Len(lists) : lists[i] = <<>>)
              /\ currentIPs'[t] # <<>> =>
                     \E i \in 1..Len(lists) : lists[i] = currentIPs'[t]]_vars

\* A check whose resolvers returned three different lists, one of them
\* empty, has taken the two-value list of one resolver as its consensus.
C29_Witness ==
    \E t \in Tasks :
        /\ pc[t] = "get"
        /\ Len(currentIPs[t]) = 2
        /\ currentIPs[t][1] # currentIPs[t][2]
        /\ \E i, j \in 1..Len(resolverResults[t]) :
               /\ resolverResults[t][i].ips = <<>>
               /\ resolverResults[t][j].ips # <<>>
               /\ resolverResults[t][j].ips # currentIPs[t]

\* ------------------------------------------------------------------- C23

\* The services the sub-lookups of address ip were sent to so far.
ServicesAsked(ip) ==
    { lookups[k].service : k \in { n \in 1..Len(lookups) : lookups[n].ip = ip } }

\* The sub-lookup whose request is pending at a position of analyzeIP.
SubLookupAt(position) ==
    CASE position \in { "ip-api", "ipapi.co" } -> "geolocation"
      [] position = "cloudflare-radar" -> "reputation"
      [] position = "ptr" -> "reverseDns"
      [] OTHER -> "none"

\* C23: in analyzeIP for an address that is not short-circuited as private,
\* a sub-lookup that settles, failed or not, touches only its own fields
\* (geolocation and asn, reputation, reverseDns) and never the ip; whatever
\* the earlier sub-lookups gave, every sub-lookup the options do not skip is
\* still sent, and analyzeIP returns the analysis carrying the ip.
C23_SubLookupFailureStaysInItsField ==
    /\ [](analysisCall # None /\ analysisCall[1].entry = "analyzeIP"
            /\ ~IsPrivateIP(analysisCall[1].ips[1]) =>
            LET ip == analysisCall[1].ips[1]
                options == analysisCall[1].options
            IN  /\ analysis[1].ip = ip
                /\ analysisPc[1] = "done" =>
                      /\ ~options.skipGeo => "ip-api" \in ServicesAsked(ip)
                      /\ ~options.skipReputation =>
                            /\ "cloudflare-radar" \in ServicesAsked(ip)
                            /\ analysis[1].reputation # None
                      /\ ~options.skipReverseDns => "ptr" \in ServicesAsked(ip)
                      /\ ENABLED AnalyzeReturn \/ analysisRet = Some(analysis[1]))
    /\ [][analysisCall # None /\ analysisCall' = analysisCall =>
            LET before == analysis[1]
                after == analysis'[1]
                at == SubLookupAt(analysisPc[1])
            IN  /\ after.ip = before.ip
                /\ at # "geolocation" =>
                      after.geolocation = before.geolocation /\ after.asn = before.asn
                /\ at # "reputation" => after.reputation = before.reputation
                /\ at # "reverseDns" => after.reverseDns = before.reverseDns]_vars

\* analyzeIP of a public address has returned after both geolocation
\* sources and the PTR query failed and the reputation source did not
\* answer: the four requests were all sent, geolocation, asn and reverseDns
\* are undefined and the reputation is the default one.
C23_Witness ==
    /\ analysisRet # None
    /\ analysisCall[1].entry = "analyzeIP"
    /\ ~IsPrivateIP(analysisRet[1].ip)
    /\ analysisRet[1].ip = analysisCall[1].ips[1]
    /\ ServicesAsked(analysisRet[1].ip) = { "ip-api", "ipapi.co", "cloudflare-radar", "ptr" }
    /\ analysisRet[1].geolocation = None
    /\ analysisRet[1].asn = None
    /\ analysisRet[1].reputation # None
    /\ analysisRet[1].reputation[1].source = "default"
    /\ analysisRet[1].reverseDns = None

\* ------------------------------------------------------------------- C24

\* 2^n
RECURSIVE Pow2(_)
Pow2(n) == IF n = 0 THEN 1 ELSE 2 * Pow2(n - 1)

\* The address lies in the block cidr names: it agrees with the block's
\* base address on the leading bits counted after the '/'.
InCidr(ip, cidr) ==
    LET bits == Number(Split(cidr, "/")[2])
        base == Split(Split(cidr, "/")[1], ".")
        parts == Split(ip, ".")
    IN  /\ Len(parts) = 4
        /\ \A k \in 1..4 :
               /\ Number(parts[k]) # NaN
               /\ IF bits >= 8 * k THEN Number(parts[k]) = Number(base[k])
                  ELSE IF bits > 8 * (k - 1)
                  THEN Number(parts[k]) \div Pow2(8 * k - bits)
                           = Number(base[k]) \div Pow2(8 * k - bits)
                  ELSE TRUE

\* The names of the entries of the known-bad table whose block holds ip.
KnownBadCategories(ip) ==
    LET matching == SelectSeq(suspiciousASNs, LAMBDA asn : InCidr(ip, asn.range))
    IN  [i \in 1..Len(matching) |-> matching[i].name]

\* C24 (as claimed): a reputation that getReputation returned is the primary
\* source's when that source responded (isMalicious exactly when its threat
\* score is above 50); when it did not, an address inside a block of the
\* known-bad table has isClean = false, isMalicious = true and the names of
\* the blocks holding it as categories, and every other address has
\* isClean = true, isMalicious = false and source 'default'.
C24_ReputationFallback ==
    analysisCall # None /\ analysisCall[1].entry = "analyzeIP" =>
        \A i \in 1..Len(analysis) :
            (~IsPrivateIP(analysis[i].ip) /\ analysis[i].reputation # None) =>
                LET reputation == analysis[i].reputation[1]
                    ip == analysis[i].ip
                IN  \/ /\ reputation.source = "cloudflare-radar"
                       /\ reputation.isMalicious =
                              Some(/\ reputation.threatScore # None
                                   /\ reputation.threatScore[1] > 50)
                       /\ reputation.isClean = ~reputation.isMalicious[1]
                    \/ /\ reputation.source = "local-checks"
                       /\ KnownBadCategories(ip) # <<>>
                       /\ ~reputation.isClean
                       /\ reputation.isMalicious = Some(TRUE)
                       /\ reputation.categories = KnownBadCategories(ip)
                    \/ /\ reputation.source = "default"
                       /\ KnownBadCategories(ip) = <<>>
                       /\ reputation.isClean
                       /\ reputation.isMalicious = Some(FALSE)

\* ------------------------------------------------------------------- C25

\* An analyzeIPs call is under way or has returned.
InBatch == analysisCall # None /\ analysisCall[1].entry = "analyzeIPs"

\* C25: analyzeIPs holds one analysis per input address, in input order and
\* carrying that address, and returns exactly that list once every analysis
\* is done; the per-address calls are under way together, each one that is
\* not done having sent the request it waits for; and a step of the
\* analysis of one address, a failed lookup included, leaves the analysis
\* and the position of every other address as they were.
C25_OneAnalysisPerAddress ==
    /\ [](InBatch =>
            LET ips == analysisCall[1].ips
            IN  /\ Len(analysis) = Len(ips)
                /\ Len(analysisPc) = Len(ips)
                /\ \A i \in 1..Len(ips) :
                       /\ analysis[i].ip = ips[i]
                       /\ analysisPc[i] # "done" =>
                              analysisPc[i] \in ServicesAsked(ips[i])
                /\ analysisRet # None =>
                       /\ Len(analysisRet[1]) = Len(ips)
                       /\ \A i \in 1..Len(ips) :
                              /\ analysisRet[1][i] = analysis[i]
                              /\ analysisRet[1][i].ip = ips[i]
                              /\ analysisPc[i] = "done"
                /\ (analysisRet = None /\ \A i \in 1..Len(ips) : analysisPc[i] = "done")
                       => ENABLED AnalyzeReturn)
    /\ [][(InBatch /\ analysisCall' = analysisCall) =>
            \A i, j \in 1..Len(analysis) :
                (i # j /\ (analysis'[i] # analysis[i] \/ analysisPc'[i] # analysisPc[i]))
                    => (analysis'[j] = analysis[j] /\ analysisPc'[j] = analysisPc[j])]_vars

\* analyzeIPs of two different public addresses has returned: both first
\* requests were sent before either settled, every lookup of the first
\* address failed and the second address has its geolocation and the
\* reputation of the primary source.
C25_Witness ==
    /\ InBatch
    /\ analysisRet # None
    /\ Len(analysisRet[1]) = 2
    /\ analysisRet[1][1].ip # analysisRet[1][2].ip
    /\ Len(lookups) >= 2
    /\ lookups[1].ip = analysisRet[1][1].ip
    /\ lookups[2].ip = analysisRet[1][2].ip
    /\ analysisRet[1][1].geolocation = None
    /\ analysisRet[1][1].reputation # None
    /\ analysisRet[1][1].reputation[1].source = "default"
    /\ analysisRet[1][2].geolocation # None
    /\ analysisRet[1][2].reputation # None
    /\ analysisRet[1][2].reputation[1].source = "cloudflare-radar"

\* ------------------------------------------------------------------- C30

\* C30: analyzeIPs never sends a reverse-DNS query, so every analysis it
\* holds and returns has reverseDns undefined; and assessRisk on a
\* non-empty list that analyzeIPs returned lists the missing-reverse-DNS
\* factor and never returns level low.
C30_BulkAnalysisNeverLow ==
    InBatch =>
        /\ \A k \in 1..Len(lookups) : lookups[k].service # "ptr"
        /\ \A i \in 1..Len(analysis) :
               /\ analysisPc[i] # "ptr"
               /\ analysis[i].reverseDns = None
        /\ analysisRet # None =>
               \A i \in 1..Len(analysisRet[1]) : analysisRet[1][i].reverseDns = None
        /\ (risk # None /\ riskInput[1].current # <<>>) =>
               /\ riskInput[1].current = analysisRet[1]
               /\ risk[1].level # "low"
               /\ \E f \in 1..Len(risk[1].factors) :
                      risk[1].factors[f].text = "No reverse DNS configured (suspicious)"

\* analyzeIPs was called with skipReverseDns = false on a public address
\* whose lookups found a clean reputation and nothing new; assessRisk on the
\* returned list gave level medium with the missing-reverse-DNS factor
\* alone.
C30_Witness ==
    /\ InBatch
    /\ risk # None
    /\ Len(riskInput[1].current) = 1
    /\ ~IsPrivateIP(riskInput[1].current[1].ip)
    /\ "cloudflare-radar" \in ServicesAsked(riskInput[1].current[1].ip)
    /\ risk[1].level = "medium"
    /\ Len(risk[1].factors) = 1
    /\ risk[1].factors[1].text = "No reverse DNS configured (suspicious)"

====
